---- MODULE Spec2Model ----
(***************************************************************************)
(* EulerSwap substreams package: the extraction-and-reconciliation         *)
(* pipeline of substreams/ethereum-eulerswap (modules.rs,                  *)
(* pool_factories.rs), as a state machine.                                 *)
(*                                                                         *)
(* Raw addresses are 20-byte sequences (bytes are 0..255), encoded         *)
(* addresses and store keys are strings.  Arbitrary-precision integers     *)
(* that do not fit a machine word (the 14-byte cash field) are kept as     *)
(* big-endian byte sequences; their numeric value is the sequence with     *)
(* its leading zero bytes stripped.                                        *)
(***************************************************************************)
EXTENDS Integers, Sequences, FiniteSets, TLC

VARIABLES
    block,          \* the block being assembled, then processed
    stage,          \* the stage the pipeline is at
    height,         \* how many blocks were processed
    calls_used,     \* how many calls the blocks held so far
    tx_components,  \* output of map_protocol_components
    balance_deltas, \* output of map_relative_component_balance
    balance_store,  \* the absolute balances (store_balances)
    store_deltas,   \* the deltas of balance_store written for the block
    changes,        \* output of map_protocol_changes
    produced,       \* ids of all components the builder returned so far
    store,          \* the registry store (store_protocol_components)
    transaction,    \* the transaction whose storage changes are visited
    vault_balances, \* the snapshots held by get_eulerswap_vaults_balances
    cursor,         \* how many of its storage changes were visited
    arg,            \* input of the pure function under check
    res             \* its result, <<>> before it was applied

pipelineVars == <<block, stage, height, calls_used, tx_components, balance_deltas,
                  balance_store, store_deltas, changes, produced>>
vaultVars == <<transaction, vault_balances, cursor>>
cashVars == <<arg, res>>
vars == <<pipelineVars, store, vaultVars, cashVars>>

(***************************************************************************)
(* Iterators                                                               *)
(***************************************************************************)

\* concatenation of a sequence of sequences
RECURSIVE Flatten(_)
Flatten(ss) == IF ss = <<>> THEN <<>> ELSE Head(ss) \o Flatten(Tail(ss))

(***************************************************************************)
(* Bytes and the address codec                                             *)
(***************************************************************************)

\* the hex alphabet of hex::encode (lowercase)
HexDigits == <<"0","1","2","3","4","5","6","7","8","9","a","b","c","d","e","f">>

\* hex::encode: two lowercase hex digits per byte
RECURSIVE HexEncode(_)
HexEncode(bytes) ==
    IF bytes = <<>> THEN ""
    ELSE HexDigits[(Head(bytes) \div 16) + 1] \o HexDigits[(Head(bytes) % 16) + 1]
         \o HexEncode(Tail(bytes))

\* format_pool_id / format_component_id: "0x" + lowercase hex
format_pool_id(address) == "0x" \o HexEncode(address)

\* store_address: the canonical form used for every store key
store_address(address) == format_pool_id(address)

\* value of one hex digit, either case, -1 when it is none
HexVal(c) ==
    IF \E i \in 1..16 : HexDigits[i] = c
    THEN (CHOOSE i \in 1..16 : HexDigits[i] = c) - 1
    ELSE CASE c = "A" -> 10 [] c = "B" -> 11 [] c = "C" -> 12
           [] c = "D" -> 13 [] c = "E" -> 14 [] c = "F" -> 15
           [] OTHER -> -1

\* results that are no byte sequence: hex::decode's Err, and a panic
HexErr == <<-1>>
Panic == <<-2>>

\* hex::decode on the characters of s from position i on (an even count):
\* HexErr as soon as a character is no hex digit
RECURSIVE HexDecodeFrom(_, _)
HexDecodeFrom(s, i) ==
    IF i > Len(s) THEN <<>>
    ELSE LET hi == HexVal(SubSeq(s, i, i))
             lo == HexVal(SubSeq(s, i + 1, i + 1))
             rest == HexDecodeFrom(s, i + 2)
         IN IF hi < 0 \/ lo < 0 \/ rest = HexErr THEN HexErr
            ELSE <<hi * 16 + lo>> \o rest

\* hex::decode(s): Err on an odd length or a non-hex character
hex_decode(s) ==
    IF Len(s) % 2 = 1 THEN HexErr ELSE HexDecodeFrom(s, 1)

\* decode_address: hex::decode(&address_str[2..]).unwrap_or_default();
\* slicing a string shorter than two characters panics
decode_address(address_str) ==
    IF Len(address_str) < 2 THEN Panic
    ELSE LET d == hex_decode(SubSeq(address_str, 3, Len(address_str)))
         IN IF d = HexErr THEN <<>> ELSE d

\* the hex! macro on a literal
hex(lit) == hex_decode(lit)

\* fixed infrastructure addresses
EVC_ADDRESS == hex("0C9a3dd6b8F28529d72d7f9cE918D493519EE383")
EULERSWAP_PERIPHERY == hex("4fE0547e7Be0e9a9cED3aC948B83146996f899aE")
EULERSWAP_IMPLEMENTATION == hex("270e7d14f304c0df91e50996072525b24978e17f")
EVK_EVAULT_IMPL == hex("8ff1c814719096b61abf00bb46ead0c9a529dd7d")
EVK_VAULT_MODULE_IMPL == hex("b4ad4d9c02c01b01cf586c16f01c58c73c7f0188")
EVK_BORROWING_MODULE_IMPL == hex("639156f8feb0cd88205e4861a0224ec169605acf")
EVK_GOVERNANCE_MODULE_IMPL == hex("a61f5016f2cd5cec12d091f871fce1e1df5f0b67")
EVK_GENERIC_FACTORY == hex("29a56a1b8214d9cf7c5561811750d5cbdb45cc8e")
PERMIT_2 == hex("000000000022D473030F116dDEE9F6B43aC78BA3")
\* the two factory addresses maybe_create_component matches on
EULERSWAP_FACTORY == hex("F75548aF02f1928CbE9015985D4Fcbf96d728544")
\* a mutant: the vault branch matches the periphery's address
VaultBranchAtPeriphery == EULERSWAP_PERIPHERY
EVK_FACTORY_MATCH == hex("29a56a1b8214D9Cf7c5561811750D5cBDb45CC8e")

(***************************************************************************)
(* Store keys and the registry store                                       *)
(***************************************************************************)

POOL_PREFIX == "pool:"
TOKEN_PREFIX == "token:"
VAULT_PREFIX == "vault:"
ASSET0_SUFFIX == ":asset0"
ASSET1_SUFFIX == ":asset1"
VAULT0_SUFFIX == ":vault0"
VAULT1_SUFFIX == ":vault1"
ASSET_SUFFIX == ":asset"

pool_key(pool_id) == POOL_PREFIX \o pool_id

pool_asset_key(pool_id, is_asset0) ==
    IF is_asset0 THEN POOL_PREFIX \o pool_id \o ASSET0_SUFFIX
    ELSE POOL_PREFIX \o pool_id \o ASSET1_SUFFIX

pool_vault_key(pool_id, is_vault0) ==
    IF is_vault0 THEN POOL_PREFIX \o pool_id \o VAULT0_SUFFIX
    ELSE POOL_PREFIX \o pool_id \o VAULT1_SUFFIX

vault_asset_key(vault_id) == VAULT_PREFIX \o vault_id \o ASSET_SUFFIX

token_key(token_addr) == TOKEN_PREFIX \o token_addr

vault_key(vault_addr) == VAULT_PREFIX \o vault_addr

\* a mutant: a key that holds a value keeps it
KeepsFirstValue(st, key, value) ==
    [k \in DOMAIN st \cup {key} |-> IF k \in DOMAIN st THEN st[k] ELSE value]

\* StoreSetString::set: the key now holds the value (a store is a function
\* from its keys to their latest values)
StoreSet(st, key, value) ==
    [k \in DOMAIN st \cup {key} |-> IF k = key THEN value ELSE st[k]]

\* StoreGetString::get_last: <<v>> for Some(v), <<>> for None
get_last(st, key) == IF key \in DOMAIN st THEN <<st[key]>> ELSE <<>>

is_some(opt) == opt # <<>>

\* the store with no key
EmptyStore == [k \in {} |-> ""]

(***************************************************************************)
(* Blocks: transactions, calls, logs, storage changes                      *)
(*                                                                         *)
(*   transaction    [index, calls]                                         *)
(*   call           [address, sig, state_reverted, logs, storage_changes]  *)
(*   log            [address, ordinal, ev]                                 *)
(*   storage change [address, key, new_value, ordinal]                     *)
(*                                                                         *)
(* sig names the function the call's input decodes as; ev is the event the *)
(* log decodes as, a record whose type field names it.                     *)
(***************************************************************************)

\* a raw address is 20 bytes
AddrLen == 20
Addr(n) == [i \in 1..AddrLen |-> IF i = AddrLen THEN n ELSE 0]

\* the addresses of the blocks: two pools, two tokens, two vaults and an
\* address that is none of these
POOL_A == Addr(10)
POOL_B == Addr(11)
TOKEN_0 == Addr(160)
TOKEN_1 == Addr(161)
VAULT_0 == Addr(176)
VAULT_1 == Addr(177)
STRANGER == Addr(238)

\* the PoolDeployed event of each pool: pool B holds the same tokens and
\* vaults as pool A, in the other order
PoolDeployed(pool) ==
    IF pool = POOL_A
    THEN [type |-> "PoolDeployed", pool |-> pool, asset0 |-> TOKEN_0,
          asset1 |-> TOKEN_1, vault0 |-> VAULT_0, vault1 |-> VAULT_1]
    ELSE [type |-> "PoolDeployed", pool |-> pool, asset0 |-> TOKEN_1,
          asset1 |-> TOKEN_0, vault0 |-> VAULT_1, vault1 |-> VAULT_0]

PoolConfig(pool, r0, r1) ==
    [type |-> "PoolConfig", pool |-> pool, initial_state |-> <<r0, r1>>]

Swap(a0in, a1in, a0out, a1out) ==
    [type |-> "Swap", amount0_in |-> a0in, amount1_in |-> a1in,
     amount0_out |-> a0out, amount1_out |-> a1out]

ProxyCreated(proxy) ==
    [type |-> "ProxyCreated", proxy |-> proxy, implementation |-> EVK_EVAULT_IMPL]

\* <Event>::match_and_decode and <Function>::match_and_decode: the typed
\* value or no match
EventMatches(log, type) == log.ev.type = type
CallMatches(call, sig) == call.sig = sig

(***************************************************************************)
(* Component Registry Builder and Registry Store                           *)
(***************************************************************************)

\* the attributes both branches of maybe_create_component attach (the
\* attributes that copy event fields verbatim are not kept)
StatelessAttributes ==
    << <<"stateless_contract_addr_0", EVK_EVAULT_IMPL>>,
       <<"stateless_contract_addr_1", EVK_VAULT_MODULE_IMPL>>,
       <<"stateless_contract_addr_2", EVK_BORROWING_MODULE_IMPL>>,
       <<"stateless_contract_addr_3", EVK_GOVERNANCE_MODULE_IMPL>>,
       <<"stateless_contract_addr_4", EVK_GENERIC_FACTORY>>,
       <<"manual_updates", <<1>> >> >>

\* maybe_create_component: <<component>> for Some, <<>> for None
maybe_create_component(call, log) ==
    IF call.address = EULERSWAP_FACTORY
    THEN IF CallMatches(call, "deployPool") /\ EventMatches(log, "PoolDeployed")
         THEN << [id |-> format_pool_id(log.ev.pool),
                  tokens |-> <<log.ev.asset0, log.ev.asset1>>,
                  contracts |-> <<log.ev.pool, log.ev.vault0, log.ev.vault1,
                                  EVC_ADDRESS>>,
                  static_att |-> <<  <<"pool_type", "EulerSwap">> >>
                                 \o StatelessAttributes,
                  financial_type |-> "Swap"] >>
         ELSE <<>>
    ELSE IF call.address = EVK_FACTORY_MATCH
    THEN IF EventMatches(log, "ProxyCreated")
         THEN << [id |-> format_pool_id(log.ev.proxy),
                  tokens |-> <<>>,
                  contracts |-> <<log.ev.proxy, log.ev.implementation,
                                  EVC_ADDRESS>>,
                  static_att |-> <<  <<"vault_type", "EulerLending">> >>
                                 \o StatelessAttributes,
                  financial_type |-> "Lend"] >>
         ELSE <<>>
    ELSE <<>>

\* tx.logs_with_calls(): the (log, call) pairs of a transaction
LogsWithCalls(tx) ==
    Flatten([i \in 1..Len(tx.calls) |->
        [j \in 1..Len(tx.calls[i].logs) |->
            [log |-> tx.calls[i].logs[j], call |-> tx.calls[i]]]])

\* map_protocol_components on one transaction: its components
TxComponents(tx) ==
    LET pairs == LogsWithCalls(tx)
    IN Flatten([i \in 1..Len(pairs) |->
                   maybe_create_component(pairs[i].call, pairs[i].log)])

\* map_protocol_components: one entry per transaction with a component
map_protocol_components(blk) ==
    LET entries == [i \in 1..Len(blk) |->
                       [tx |-> blk[i].index, components |-> TxComponents(blk[i])]]
        HasComponents(e) == e.components # <<>>
    IN SelectSeq(entries, HasComponents)

\* the body of store_protocol_components for one component: the eleven
\* writes, in order.  pc.tokens[0], pc.tokens[1], pc.contracts[1] and
\* pc.contracts[2] panic on a list that is too short.
StoreComponent(st, pc) ==
    IF Len(pc.tokens) < 2 \/ Len(pc.contracts) < 3
    THEN [panicked |-> TRUE, store |-> StoreSet(st, pool_key(pc.id), pc.id)]
    ELSE LET pool_id == pc.id
             token0_addr == store_address(pc.tokens[1])
             token1_addr == store_address(pc.tokens[2])
             vault0_addr == store_address(pc.contracts[2])
             vault1_addr == store_address(pc.contracts[3])
             s1 == StoreSet(st, pool_key(pool_id), pool_id)
             s2 == StoreSet(s1, pool_asset_key(pool_id, TRUE), token0_addr)
             s3 == StoreSet(s2, token_key(token0_addr), token0_addr)
             s4 == StoreSet(s3, pool_asset_key(pool_id, FALSE), token1_addr)
             s5 == StoreSet(s4, token_key(token1_addr), token1_addr)
             s6 == StoreSet(s5, pool_vault_key(pool_id, TRUE), vault0_addr)
             s7 == StoreSet(s6, vault_key(vault0_addr), vault0_addr)
             s8 == StoreSet(s7, vault_asset_key(vault0_addr), token0_addr)
             s9 == StoreSet(s8, pool_vault_key(pool_id, FALSE), vault1_addr)
             s10 == StoreSet(s9, vault_key(vault1_addr), vault1_addr)
             s11 == StoreSet(s10, vault_asset_key(vault1_addr), token1_addr)
         IN [panicked |-> FALSE, store |-> s11]

\* the components of all entries, in order
AllComponents(tx_comps) ==
    Flatten([i \in 1..Len(tx_comps) |-> tx_comps[i].components])

\* store_protocol_components over the first n components; a panic stops it
RECURSIVE StoreComponents(_, _, _)
StoreComponents(st, pcs, n) ==
    IF n = 0 THEN [panicked |-> FALSE, store |-> st]
    ELSE LET before == StoreComponents(st, pcs, n - 1)
         IN IF before.panicked THEN before
            ELSE StoreComponent(before.store, pcs[n])

store_protocol_components(tx_comps, st) ==
    LET pcs == AllComponents(tx_comps)
    IN StoreComponents(st, pcs, Len(pcs))

(***************************************************************************)
(* Storage-based cash extraction                                           *)
(***************************************************************************)

\* length of a storage word and of the snapshot value
SlotLen == 32
\* the cash field is new_value[12..26): first byte offset and end offset
CashFrom == 12
CashTo == 26
\* the field is copied to cash_value[18..]
CashDest == 18

\* a mutant: the field is read at the destination offsets, new_value[18..32)
CashValueFromTail(new_value) ==
    [i \in 1..SlotLen |-> IF i <= CashDest THEN 0 ELSE new_value[i]]

\* let mut cash_value = vec![0u8; 32];
\* cash_value[18..].copy_from_slice(&new_value[12..26]);
\* (sequences are 1-based: offset k is index k + 1)
CashValue(new_value) ==
    [i \in 1..SlotLen |->
        IF i <= CashDest THEN 0 ELSE new_value[CashFrom + (i - CashDest)]]

\* BigInt::from_unsigned_bytes_be: the magnitude, as big-endian base-256
\* digits without leading zeros (<<>> is zero)
RECURSIVE from_unsigned_bytes_be(_)
from_unsigned_bytes_be(bytes) ==
    IF bytes = <<>> THEN <<>>
    ELSE IF Head(bytes) = 0 THEN from_unsigned_bytes_be(Tail(bytes))
    ELSE bytes

\* the slot of VaultStorage that holds the cash field
CashSlotIndex == 2

\* a mutant: the key of the slot after the cash slot's
NextSlotKey ==
    [i \in 1..SlotLen |-> IF i = SlotLen THEN CashSlotIndex + 1 ELSE 0]

\* get_storage_key_for_vault_cash: the 32-byte key whose last byte is 2
get_storage_key_for_vault_cash ==
    [i \in 1..SlotLen |-> IF i = SlotLen THEN CashSlotIndex ELSE 0]

\* the map with no entry
EmptyMap == [k \in {} |-> <<>>]

\* the and_modify condition without the comparison of the values
ReplacesOlder(v, change, cash_value) == v.ordinal < change.ordinal

\* the and_modify condition: the held snapshot v is replaced
\* if v.ordinal < change.ordinal && v.value != cash_value
ReplacesHeld(v, change, cash_value) ==
    v.ordinal < change.ordinal /\ v.value # cash_value

\* add_change_if_accounted: vault_balances after the storage change
add_change_if_accounted(vb, change, vault_address, token_address) ==
    IF change.key = get_storage_key_for_vault_cash
    THEN LET cash_value == CashValue(change.new_value)
             new == [value |-> cash_value, ordinal |-> change.ordinal]
             inner == IF vault_address \in DOMAIN vb THEN vb[vault_address]
                      ELSE EmptyMap
             inner2 == IF token_address \in DOMAIN inner
                       THEN IF ReplacesHeld(inner[token_address], change, cash_value)
                            THEN [inner EXCEPT ![token_address] = new]
                            ELSE inner
                       ELSE [t \in DOMAIN inner \cup {token_address} |->
                                IF t = token_address THEN new ELSE inner[t]]
         IN [v \in DOMAIN vb \cup {vault_address} |->
                IF v = vault_address THEN inner2 ELSE vb[v]]
    ELSE vb

\* the signatures get_eulerswap_vaults_balances matches a call against
MutatingSigs == {"deposit", "withdraw", "borrow", "repayWithShares"}

\* the filter on the calls of the transaction
CallQualifies(call) == ~call.state_reverted /\ call.sig \in MutatingSigs

\* the storage changes in the order they are visited: the qualifying calls
\* in call order, each call's changes in their order
VisitedChanges(tx) ==
    LET calls == SelectSeq(tx.calls, CallQualifies)
    IN Flatten([i \in 1..Len(calls) |-> calls[i].storage_changes])

\* VisitChange without the registry lookups: the write of an address the
\* registry does not hold is accounted to the address itself
AccountsUnknown(vb, st, sc) ==
    add_change_if_accounted(vb, sc, sc.address, sc.address)

\* one storage change of a qualifying call: kept when its address has a
\* vault:<addr> entry and a vault:<addr>:asset entry
VisitChange(vb, st, sc) ==
    IF is_some(get_last(st, vault_key(store_address(sc.address))))
    THEN LET asset == get_last(st, vault_asset_key(store_address(sc.address)))
         IN IF is_some(asset)
            THEN add_change_if_accounted(vb, sc, sc.address, decode_address(asset[1]))
            ELSE vb
    ELSE vb

\* the snapshots after the first n visited changes
RECURSIVE BalancesAfter(_, _, _)
BalancesAfter(scs, st, n) ==
    IF n = 0 THEN EmptyMap
    ELSE VisitChange(BalancesAfter(scs, st, n - 1), st, scs[n])

get_eulerswap_vaults_balances(tx, st) ==
    LET scs == VisitedChanges(tx)
    IN BalancesAfter(scs, st, Len(scs))

(***************************************************************************)
(* Balance Delta Extractor, event-based                                    *)
(***************************************************************************)

\* the big-endian base-256 digits of n >= 0, at least one
RECURSIVE UnsignedBytes(_)
UnsignedBytes(n) ==
    IF n < 256 THEN <<n>> ELSE UnsignedBytes(n \div 256) \o <<n % 256>>

\* 256^k
RECURSIVE Pow256(_)
Pow256(k) == IF k = 0 THEN 1 ELSE 256 * Pow256(k - 1)

\* BigInt::to_signed_bytes_be: the shortest two's complement big-endian
\* bytes (amounts stay below 2^23 in magnitude)
to_signed_bytes_be(n) ==
    IF n >= 0
    THEN LET u == UnsignedBytes(n)
         IN IF u[1] >= 128 THEN <<0>> \o u ELSE u
    ELSE LET k == CHOOSE k \in 1..3 :
                     /\ 2 * (-n) <= Pow256(k)
                     /\ \A j \in 1..(k - 1) : 2 * (-n) > Pow256(j)
         IN UnsignedBytes(Pow256(k) + n)

\* the value of big-endian base-256 digits
RECURSIVE UnsignedValue(_)
UnsignedValue(bytes) ==
    IF bytes = <<>> THEN 0
    ELSE UnsignedValue(SubSeq(bytes, 1, Len(bytes) - 1)) * 256 + bytes[Len(bytes)]

\* BigInt::from_signed_bytes_be
from_signed_bytes_be(bytes) ==
    IF bytes = <<>> THEN 0
    ELSE IF bytes[1] >= 128 THEN UnsignedValue(bytes) - Pow256(Len(bytes))
    ELSE UnsignedValue(bytes)

\* a mutant: the amount flowing out is not negated
NotNegated(n) == n

\* BigInt::neg
neg(n) == 0 - n

\* block.logs(): every log of the block with its transaction, in block order
BlockLogs(blk) ==
    Flatten([i \in 1..Len(blk) |->
        LET pairs == LogsWithCalls(blk[i])
        IN [j \in 1..Len(pairs) |-> [log |-> pairs[j].log, tx |-> blk[i].index]]])

\* a mutant: a delta is pushed for every amount, zero or not
PushesDeltaAlways(amount) == amount >= 0

\* the guard of every push: amount > BigInt::from(0)
PushesDelta(amount) == amount > 0

\* deltas.push(BalanceDelta { .. }) under its guard
PushDelta(entry, token, pool_id, amount, delta) ==
    IF PushesDelta(amount)
    THEN << [ord |-> entry.log.ordinal, tx |-> entry.tx, token |-> token,
             component_id |-> pool_id, delta |-> to_signed_bytes_be(delta)] >>
    ELSE <<>>

\* the PoolConfig logs of the block that carry the pool address, in block
\* order: block.logs().find(..) takes the first
MatchingPoolConfigs(blk, pool) ==
    LET IsConfig(e) == EventMatches(e.log, "PoolConfig") /\ e.log.ev.pool = pool
    IN SelectSeq(BlockLogs(blk), IsConfig)

\* the deployment part without the lookup of pool:<id> in the registry
DeploysUnregistered(blk, st, entry) ==
    IF EventMatches(entry.log, "PoolDeployed")
    THEN LET found == MatchingPoolConfigs(blk, entry.log.ev.pool)
         IN IF found = <<>> THEN [panicked |-> TRUE, deltas |-> <<>>]
            ELSE [panicked |-> FALSE,
                  deltas |->
                    PushDelta(entry, entry.log.ev.asset0,
                              format_pool_id(entry.log.ev.pool),
                              found[1].log.ev.initial_state[1],
                              found[1].log.ev.initial_state[1])
                    \o PushDelta(entry, entry.log.ev.asset1,
                                 format_pool_id(entry.log.ev.pool),
                                 found[1].log.ev.initial_state[2],
                                 found[1].log.ev.initial_state[2])]
    ELSE [panicked |-> FALSE, deltas |-> <<>>]

\* the deployment part of the closure of map_relative_component_balance
\* for one log; .unwrap() panics when no PoolConfig log matches
DeployDeltas(blk, st, entry) ==
    IF EventMatches(entry.log, "PoolDeployed")
    THEN LET deploy_event == entry.log.ev
             pool_id == format_pool_id(deploy_event.pool)
         IN IF is_some(get_last(st, pool_key(pool_id)))
            THEN LET found == MatchingPoolConfigs(blk, deploy_event.pool)
                 IN IF found = <<>> THEN [panicked |-> TRUE, deltas |-> <<>>]
                    ELSE LET pool_config == found[1].log.ev
                             r0 == pool_config.initial_state[1]
                             r1 == pool_config.initial_state[2]
                         IN [panicked |-> FALSE,
                             deltas |->
                               PushDelta(entry, deploy_event.asset0, pool_id, r0, r0)
                               \o PushDelta(entry, deploy_event.asset1, pool_id, r1, r1)]
            ELSE [panicked |-> FALSE, deltas |-> <<>>]
    ELSE [panicked |-> FALSE, deltas |-> <<>>]

\* the Swap part with the amounts of each asset netted into one delta
NetsSwapAmounts(st, entry) ==
    IF EventMatches(entry.log, "Swap")
       /\ is_some(get_last(st, pool_key(format_pool_id(entry.log.address))))
    THEN LET ev == entry.log.ev
             pool_id == format_pool_id(entry.log.address)
             net0 == ev.amount0_in - ev.amount0_out
             net1 == ev.amount1_in - ev.amount1_out
         IN (IF net0 # 0
             THEN << [ord |-> entry.log.ordinal, tx |-> entry.tx,
                      token |-> decode_address(
                                    get_last(st, pool_asset_key(pool_id, TRUE))[1]),
                      component_id |-> pool_id,
                      delta |-> to_signed_bytes_be(net0)] >>
             ELSE <<>>)
            \o (IF net1 # 0
                THEN << [ord |-> entry.log.ordinal, tx |-> entry.tx,
                         token |-> decode_address(
                                       get_last(st, pool_asset_key(pool_id, FALSE))[1]),
                         component_id |-> pool_id,
                         delta |-> to_signed_bytes_be(net1)] >>
                ELSE <<>>)
    ELSE <<>>

\* the Swap part of the closure for one log
SwapDeltas(st, entry) ==
    IF EventMatches(entry.log, "Swap")
    THEN LET swap_event == entry.log.ev
             pool_id == format_pool_id(entry.log.address)
             asset0 == get_last(st, pool_asset_key(pool_id, TRUE))
             asset1 == get_last(st, pool_asset_key(pool_id, FALSE))
         IN IF is_some(get_last(st, pool_key(pool_id)))
               /\ is_some(asset0) /\ is_some(asset1)
            THEN LET asset0_bytes == decode_address(asset0[1])
                     asset1_bytes == decode_address(asset1[1])
                 IN PushDelta(entry, asset0_bytes, pool_id,
                              swap_event.amount0_in, swap_event.amount0_in)
                    \o PushDelta(entry, asset1_bytes, pool_id,
                                 swap_event.amount1_in, swap_event.amount1_in)
                    \o PushDelta(entry, asset0_bytes, pool_id,
                                 swap_event.amount0_out, neg(swap_event.amount0_out))
                    \o PushDelta(entry, asset1_bytes, pool_id,
                                 swap_event.amount1_out, neg(swap_event.amount1_out))
            ELSE <<>>
    ELSE <<>>

\* the deltas of one log
LogDeltas(blk, st, entry) ==
    LET d == DeployDeltas(blk, st, entry)
    IN [panicked |-> d.panicked, deltas |-> d.deltas \o SwapDeltas(st, entry)]

\* a mutant: a deployment without its PoolConfig log is skipped, no panic
SkipsUnmatchedDeployments(blk, st) ==
    LET logs == BlockLogs(blk)
    IN [panicked |-> FALSE,
        deltas |-> Flatten([i \in 1..Len(logs) |-> LogDeltas(blk, st, logs[i]).deltas])]

\* map_relative_component_balance: the deltas of all logs in block order,
\* or a panic
map_relative_component_balance(blk, st) ==
    LET logs == BlockLogs(blk)
        per == [i \in 1..Len(logs) |-> LogDeltas(blk, st, logs[i])]
    IN [panicked |-> \E i \in 1..Len(logs) : per[i].panicked,
        deltas |-> Flatten([i \in 1..Len(logs) |-> per[i].deltas])]

(***************************************************************************)
(* Absolute Balance Aggregator                                             *)
(***************************************************************************)

\* the balance of a (component, token) key, zero before its first delta
BalanceOf(bs, key) == IF key \in DOMAIN bs THEN bs[key] ELSE 0

\* StoreAddBigInt::add
StoreAdd(bs, key, n) ==
    [k \in DOMAIN bs \cup {key} |-> IF k = key THEN BalanceOf(bs, key) + n ELSE bs[k]]

\* the key of a delta in the balance store
BalanceKey(delta) == <<delta.component_id, delta.token>>

\* store_balance_changes: the store after the first n deltas
RECURSIVE BalancesAfterDeltas(_, _, _)
BalancesAfterDeltas(bs, deltas, n) ==
    IF n = 0 THEN bs
    ELSE StoreAdd(BalancesAfterDeltas(bs, deltas, n - 1), BalanceKey(deltas[n]),
                  from_signed_bytes_be(deltas[n].delta))

\* a mutant: the deltas are not added to the store
KeepsBalances(deltas, bs) == bs

\* store_balances: the store after the block's deltas
store_balances(deltas, bs) == BalancesAfterDeltas(bs, deltas, Len(deltas))

\* the StoreDeltas of the block: per delta, the key and its new total
StoreDeltasOf(deltas, bs) ==
    [n \in 1..Len(deltas) |->
        [ordinal |-> deltas[n].ord, key |-> BalanceKey(deltas[n]),
         new_value |-> BalancesAfterDeltas(bs, deltas, n)[BalanceKey(deltas[n])]]]

(***************************************************************************)
(* Transaction Change-Set Builder                                          *)
(*                                                                         *)
(* A builder (TransactionChangesBuilder) holds, for one transaction:       *)
(*   component_changes  component id -> component                          *)
(*   entity_changes     component id -> (attribute name -> attribute)      *)
(*   balance_changes    <<component id, token>> -> absolute balance        *)
(*   contract_changes   address -> [slots, token_balances]                 *)
(***************************************************************************)

\* a map with key k set to v
MapPut(m, k, v) == [x \in DOMAIN m \cup {k} |-> IF x = k THEN v ELSE m[x]]

\* the entries of the second map over those of the first
MapMerge(m1, m2) ==
    [x \in DOMAIN m1 \cup DOMAIN m2 |-> IF x \in DOMAIN m2 THEN m2[x] ELSE m1[x]]

\* TransactionChangesBuilder::new
NewBuilder(index) ==
    [index |-> index, component_changes |-> EmptyMap, entity_changes |-> EmptyMap,
     balance_changes |-> EmptyMap, contract_changes |-> EmptyMap]

\* transaction_changes.entry(index).or_insert_with(..)
BuilderAt(tc, index) == IF index \in DOMAIN tc THEN tc[index] ELSE NewBuilder(index)

add_protocol_component(b, component) ==
    [b EXCEPT !.component_changes = MapPut(@, component.id, component)]

\* the attributes of the change are set on the component's entity
add_entity_change(b, component_id, attributes) ==
    LET held == IF component_id \in DOMAIN b.entity_changes
                THEN b.entity_changes[component_id] ELSE EmptyMap
        given == [n \in {attributes[i].name : i \in 1..Len(attributes)} |->
                    LET i == CHOOSE i \in 1..Len(attributes) : attributes[i].name = n
                    IN attributes[i]]
    IN [b EXCEPT !.entity_changes = MapPut(@, component_id, MapMerge(held, given))]

\* mark_component_as_updated: the update_marker attribute, as an update
mark_component_as_updated(b, component_id) ==
    add_entity_change(b, component_id,
        << [name |-> "update_marker", value |-> <<1>>, change |-> "Update"] >>)

\* the contract change of an address: its slots and token balances join
\* those already held for the address
add_contract_changes(b, address, slots, token_balances) ==
    LET held == IF address \in DOMAIN b.contract_changes
                THEN b.contract_changes[address]
                ELSE [slots |-> EmptyMap, token_balances |-> EmptyMap]
    IN [b EXCEPT !.contract_changes =
           MapPut(@, address,
                  [slots |-> MapMerge(held.slots, slots),
                   token_balances |-> MapMerge(held.token_balances, token_balances)])]

changed_contracts(b) == DOMAIN b.contract_changes

\* TransactionChangesBuilder::build: None (<<>>) for a builder that holds nothing
build(b) ==
    IF /\ DOMAIN b.component_changes = {}
       /\ DOMAIN b.entity_changes = {}
       /\ DOMAIN b.balance_changes = {}
       /\ DOMAIN b.contract_changes = {}
    THEN <<>>
    ELSE <<b>>

\* address_to_bytes_with_0x: the bytes of the "0x"-prefixed string (kept as
\* the string)
address_to_bytes_with_0x(address) == "0x" \o HexEncode(address)

\* default_attributes
default_attributes ==
    << [name |-> "update_marker", value |-> <<1>>, change |-> "Creation"],
       [name |-> "stateless_contract_addr_0",
        value |-> address_to_bytes_with_0x(EVK_EVAULT_IMPL), change |-> "Creation"],
       [name |-> "stateless_contract_addr_1",
        value |-> address_to_bytes_with_0x(EVK_VAULT_MODULE_IMPL), change |-> "Creation"],
       [name |-> "stateless_contract_addr_2",
        value |-> address_to_bytes_with_0x(EVK_BORROWING_MODULE_IMPL), change |-> "Creation"],
       [name |-> "stateless_contract_addr_3",
        value |-> address_to_bytes_with_0x(EVK_GOVERNANCE_MODULE_IMPL), change |-> "Creation"],
       [name |-> "stateless_contract_addr_4",
        value |-> address_to_bytes_with_0x(PERMIT_2), change |-> "Creation"],
       [name |-> "stateless_contract_addr_5",
        value |-> address_to_bytes_with_0x(EULERSWAP_IMPLEMENTATION), change |-> "Creation"] >>

\* the attributes of a created component:
\* component_attributes[0].value = decode_address(&component.id)
ComponentAttributes(component) ==
    [default_attributes EXCEPT ![1].value = decode_address(component.id)]

\* the builder after the first n components of an entry
RECURSIVE WithComponents(_, _, _)
WithComponents(b, components, n) ==
    IF n = 0 THEN b
    ELSE add_entity_change(
             add_protocol_component(WithComponents(b, components, n - 1), components[n]),
             components[n].id, ComponentAttributes(components[n]))

\* step 1, newly created components: the builders after the first n entries
RECURSIVE WithNewComponents(_, _, _)
WithNewComponents(tc, tx_comps, n) ==
    IF n = 0 THEN tc
    ELSE LET before == WithNewComponents(tc, tx_comps, n - 1)
             e == tx_comps[n]
         IN MapPut(before, e.tx,
                   WithComponents(BuilderAt(before, e.tx), e.components,
                                  Len(e.components)))

\* aggregate_balances_changes: per transaction with a delta, per
\* (component, token) it touched, the total after its last delta
aggregate_balances_changes(sdeltas, deltas) ==
    LET txs == {deltas[i].tx : i \in 1..Len(deltas)}
        KeysOf(tx) == {sdeltas[i].key : i \in {j \in 1..Len(deltas) : deltas[j].tx = tx}}
        LastOf(tx, key) ==
            CHOOSE i \in 1..Len(deltas) :
                /\ deltas[i].tx = tx /\ sdeltas[i].key = key
                /\ \A j \in 1..Len(deltas) :
                     (deltas[j].tx = tx /\ sdeltas[j].key = key) => j <= i
    IN [tx \in txs |-> [key \in KeysOf(tx) |-> sdeltas[LastOf(tx, key)].new_value]]

\* a mutant: the balance-change records are attached to no builder
WithoutBalanceChanges(tc, aggregated) == tc

\* step 2, absolute balances: builder.add_balance_change for every record
WithBalanceChanges(tc, aggregated) ==
    [i \in DOMAIN tc \cup DOMAIN aggregated |->
        IF i \in DOMAIN aggregated
        THEN [BuilderAt(tc, i) EXCEPT !.balance_changes = MapMerge(@, aggregated[i])]
        ELSE tc[i]]

\* a mutant: the addresses of registered tokens are accepted as well
AcceptsTokensToo(st, addr) ==
    \/ is_some(get_last(st, pool_key(store_address(addr))))
    \/ is_some(get_last(st, vault_key(store_address(addr))))
    \/ is_some(get_last(st, token_key(store_address(addr))))
    \/ addr \in {EVC_ADDRESS, EULERSWAP_PERIPHERY, EULERSWAP_IMPLEMENTATION,
                 EVK_EVAULT_IMPL, EVK_VAULT_MODULE_IMPL,
                 EVK_BORROWING_MODULE_IMPL, EVK_GOVERNANCE_MODULE_IMPL,
                 EVK_GENERIC_FACTORY}

\* the predicate given to extract_contract_changes_builder
InterestingAddress(st, addr) ==
    LET addr_str == store_address(addr)
        is_pool == is_some(get_last(st, pool_key(addr_str)))
        is_vault == is_some(get_last(st, vault_key(addr_str)))
        is_known_fixed_address ==
            addr \in {EVC_ADDRESS, EULERSWAP_PERIPHERY, EULERSWAP_IMPLEMENTATION,
                      EVK_EVAULT_IMPL, EVK_VAULT_MODULE_IMPL,
                      EVK_BORROWING_MODULE_IMPL, EVK_GOVERNANCE_MODULE_IMPL,
                      EVK_GENERIC_FACTORY}
    IN is_pool \/ is_vault \/ is_known_fixed_address

\* the storage changes of the calls of a transaction that were not reverted
TxStorageChanges(tx) ==
    LET Kept(call) == ~call.state_reverted
        calls == SelectSeq(tx.calls, Kept)
    IN Flatten([i \in 1..Len(calls) |-> calls[i].storage_changes])

\* the storage diffs of a transaction on the accepted addresses:
\* address -> (slot key -> its last written value)
AcceptedDiffs(tx, st) ==
    LET scs == TxStorageChanges(tx)
        addrs == {scs[i].address : i \in 1..Len(scs)}
        KeysOf(a) == {scs[i].key : i \in {j \in 1..Len(scs) : scs[j].address = a}}
        LastOf(a, k) ==
            CHOOSE i \in 1..Len(scs) :
                /\ scs[i].address = a /\ scs[i].key = k
                /\ \A j \in 1..Len(scs) :
                     (scs[j].address = a /\ scs[j].key = k)
                        => scs[j].ordinal <= scs[i].ordinal
    IN [a \in {x \in addrs : InterestingAddress(st, x)} |->
           [k \in KeysOf(a) |-> scs[LastOf(a, k)].new_value]]

\* the builder with the contract changes of a map address -> slots
RECURSIVE WithSlots(_, _, _)
WithSlots(b, diffs, addrs) ==
    IF addrs = {} THEN b
    ELSE LET a == CHOOSE a \in addrs : TRUE
         IN add_contract_changes(WithSlots(b, diffs, addrs \ {a}), a, diffs[a], EmptyMap)

\* step 3, extract_contract_changes_builder: the accepted diffs join the
\* builder of their transaction
extract_contract_changes_builder(blk, st, tc) ==
    LET touched == {i \in 1..Len(blk) : DOMAIN AcceptedDiffs(blk[i], st) # {}}
        PosOf(index) == CHOOSE i \in touched : blk[i].index = index
        indices == {blk[i].index : i \in touched}
    IN [x \in DOMAIN tc \cup indices |->
           IF x \in indices
           THEN LET diffs == AcceptedDiffs(blk[PosOf(x)], st)
                IN WithSlots(BuilderAt(tc, x), diffs, DOMAIN diffs)
           ELSE tc[x]]

\* the builder left without the token balances of the snapshot map
SkipsVaultBalances(b, vb, vaults) == b

\* the builder with the token balances of the vaults of a snapshot map
RECURSIVE WithVaultBalances(_, _, _)
WithVaultBalances(b, vb, vaults) ==
    IF vaults = {} THEN b
    ELSE LET v == CHOOSE v \in vaults : TRUE
         IN add_contract_changes(
                WithVaultBalances(b, vb, vaults \ {v}), v, EmptyMap,
                [t \in DOMAIN vb[v] |-> vb[v][t].value])

\* step 4, vault snapshots: per transaction with a snapshot, one contract
\* change per vault carrying its token balances
WithVaultSnapshots(blk, st, tc) ==
    LET touched == {i \in 1..Len(blk) :
                       DOMAIN get_eulerswap_vaults_balances(blk[i], st) # {}}
        PosOf(index) == CHOOSE i \in touched : blk[i].index = index
        indices == {blk[i].index : i \in touched}
    IN [x \in DOMAIN tc \cup indices |->
           IF x \in indices
           THEN LET vb == get_eulerswap_vaults_balances(blk[PosOf(x)], st)
                IN WithVaultBalances(BuilderAt(tc, x), vb, DOMAIN vb)
           ELSE tc[x]]

\* a mutant: no changed contract marks a component
MarksNothing(st, address) == <<>>

\* the component a changed contract marks as updated, <<>> when none: an
\* address with a vault:<addr> entry marks nothing, any other address marks
\* the pool registered under it
MarksChanged(st, address) ==
    IF ~is_some(get_last(st, vault_key(store_address(address))))
    THEN get_last(st, pool_key(format_pool_id(address)))
    ELSE <<>>

\* the builder after its changed contracts were looked up
RECURSIVE WithUpdatedMarks(_, _, _)
WithUpdatedMarks(b, st, addrs) ==
    IF addrs = {} THEN b
    ELSE LET a == CHOOSE a \in addrs : TRUE
             before == WithUpdatedMarks(b, st, addrs \ {a})
             marked == MarksChanged(st, a)
         IN IF is_some(marked) THEN mark_component_as_updated(before, marked[1])
            ELSE before

\* step 5, update components that had contract changes
UpdateChangedComponents(tc, st) ==
    [i \in DOMAIN tc |-> WithUpdatedMarks(tc[i], st, changed_contracts(tc[i]))]

\* transaction_changes before it is drained
TransactionChangesOf(blk, tx_comps, st, sdeltas, deltas) ==
    LET t1 == WithNewComponents(EmptyMap, tx_comps, Len(tx_comps))
        t2 == WithBalanceChanges(t1, aggregate_balances_changes(sdeltas, deltas))
        t3 == extract_contract_changes_builder(blk, st, t2)
        t4 == WithVaultSnapshots(blk, st, t3)
    IN UpdateChangedComponents(t4, st)

\* the orders a HashMap's drain() may yield its keys in
DrainOrders(tc) ==
    LET n == Cardinality(DOMAIN tc)
    IN {o \in [1..n -> DOMAIN tc] : \A i, j \in 1..n : o[i] = o[j] => i = j}

\* x inserted into the ascending sequence s
RECURSIVE InsertSorted(_, _)
InsertSorted(s, x) ==
    IF s = <<>> THEN <<x>>
    ELSE IF x <= Head(s) THEN <<x>> \o s
    ELSE <<Head(s)>> \o InsertSorted(Tail(s), x)

\* the keys sorted ascending
RECURSIVE SortAscending(_)
SortAscending(keys) ==
    IF keys = <<>> THEN <<>>
    ELSE InsertSorted(SortAscending(Tail(keys)), Head(keys))

\* a mutant: the drained entries are not sorted
KeepDrainOrder(order) == order

\* .sorted_unstable_by_key(|(index, _)| *index)
sorted_unstable_by_key(order) == SortAscending(order)

\* map_protocol_changes: the change-sets of the block, for a drain order
map_protocol_changes(blk, tx_comps, st, sdeltas, deltas, order) ==
    LET tc == TransactionChangesOf(blk, tx_comps, st, sdeltas, deltas)
        sorted == sorted_unstable_by_key(order)
    IN Flatten([i \in 1..Len(sorted) |-> build(tc[sorted[i]])])

(***************************************************************************)
(* Specification of the cash extraction as a pure function                 *)
(***************************************************************************)

\* byte values the inputs are drawn from: 0 .. MaxByte and 255
MaxByte == 1
ByteVals == 0..MaxByte \cup {255}

\* 32-byte words: one marked byte, one fill inside the field, one outside
Words ==
    { [i \in 1..SlotLen |->
          IF i = p THEN b
          ELSE IF i > CashFrom /\ i <= CashTo THEN fin ELSE fout]
      : p \in 1..SlotLen, b \in ByteVals, fin \in ByteVals, fout \in ByteVals }

\* the variables of the other specifications, at rest
PipelineIdle ==
    /\ block = <<>>
    /\ stage = "off"
    /\ height = 0
    /\ calls_used = 0
    /\ tx_components = <<>>
    /\ balance_deltas = <<>>
    /\ balance_store = EmptyMap
    /\ store_deltas = <<>>
    /\ changes = <<>>
    /\ produced = {}

VaultIdle ==
    /\ transaction = [index |-> 0, calls |-> <<>>]
    /\ vault_balances = EmptyMap
    /\ cursor = 0

CashIdle ==
    /\ arg = <<>>
    /\ res = <<>>

CashInit ==
    /\ arg \in Words
    /\ res = <<>>
    /\ store = EmptyStore
    /\ PipelineIdle
    /\ VaultIdle

\* the extraction applied to the drawn word
ApplyCash ==
    /\ res = <<>>
    /\ res' = CashValue(arg)
    /\ UNCHANGED <<arg, store, pipelineVars, vaultVars>>

CashNext == ApplyCash

SpecCash == CashInit /\ [][CashNext]_vars

\* C3 as written: the final 14 bytes of the snapshot are the word's bytes at
\* offsets 18..31 (its 18th through 32nd bytes)
C3_FinalBytesAreWordTail ==
    res # <<>> => SubSeq(res, CashDest + 1, SlotLen) = SubSeq(arg, CashDest + 1, SlotLen)

\* C3 amended: the snapshot is 32 bytes long, its leading 18 bytes are zero
\* and its final 14 bytes are the word's bytes at offsets 12..25, whatever the
\* other bytes of the word
C3_CashLayout ==
    res # <<>> =>
        /\ Len(res) = SlotLen
        /\ \A i \in 1..CashDest : res[i] = 0
        /\ SubSeq(res, CashDest + 1, SlotLen) = SubSeq(arg, CashFrom + 1, CashTo)

\* C3 witness: an extraction of a word whose field bytes differ from its tail
C3_Witness ==
    /\ res # <<>>
    /\ SubSeq(arg, CashFrom + 1, CashTo) # SubSeq(arg, CashDest + 1, SlotLen)
    /\ \E i \in CashDest + 1 .. SlotLen : res[i] # 0

\* C4: the snapshot's numeric value is the big-endian integer of the 14 bytes
\* at offsets 12..25 and does not depend on bytes 0..11 and 26..31
C4_CashNumeric ==
    res # <<>> =>
        /\ from_unsigned_bytes_be(res)
             = from_unsigned_bytes_be(SubSeq(arg, CashFrom + 1, CashTo))
        /\ \A p \in (1..CashFrom) \cup (CashTo + 1 .. SlotLen) : \A b \in ByteVals :
             from_unsigned_bytes_be(CashValue([arg EXCEPT ![p] = b]))
               = from_unsigned_bytes_be(res)

\* C4 witness: a non-zero cash value read from a word with non-zero bytes
\* outside the field
C4_Witness ==
    /\ res # <<>>
    /\ from_unsigned_bytes_be(res) # <<>>
    /\ arg[1] # 0 /\ arg[SlotLen] # 0

(***************************************************************************)
(* Specification of get_eulerswap_vaults_balances on one transaction       *)
(***************************************************************************)

\* a storage word whose cash field holds v (in its last byte) and whose
\* last byte, in lastInterestAccumulatorUpdate, is o
CashWord(v, o) ==
    [i \in 1..SlotLen |-> IF i = CashTo THEN v ELSE IF i = SlotLen THEN o ELSE 0]

\* a storage key that is not the cash slot's
OtherSlotKey == [i \in 1..SlotLen |-> IF i = SlotLen THEN CashSlotIndex + 1 ELSE 0]

\* a call with one storage change and no log
WriteCall(address, sig, reverted, key, new_value, ordinal) ==
    [address |-> address, sig |-> sig, state_reverted |-> reverted,
     logs |-> <<>>,
     storage_changes |-> << [address |-> address, key |-> key,
                             new_value |-> new_value, ordinal |-> ordinal] >>]

\* the calls a transaction is made of, each with the ordinal of its write:
\* four that qualify and four that one of the filters drops
VaultCallShapes == 1..8
VaultCall(shape, ordinal) ==
    LET cash == get_storage_key_for_vault_cash
    IN CASE shape = 1 ->
              WriteCall(VAULT_0, "deposit", FALSE, cash, CashWord(1, 0), ordinal)
         [] shape = 2 ->
              WriteCall(VAULT_0, "withdraw", FALSE, cash, CashWord(2, 0), ordinal)
         [] shape = 3 ->
              WriteCall(VAULT_0, "borrow", FALSE, cash, CashWord(1, 9), ordinal)
         [] shape = 4 ->
              WriteCall(VAULT_1, "repayWithShares", FALSE, cash, CashWord(1, 0), ordinal)
         [] shape = 5 ->
              WriteCall(VAULT_0, "deposit", FALSE, OtherSlotKey, CashWord(2, 0), ordinal)
         [] shape = 6 ->
              WriteCall(STRANGER, "deposit", FALSE, cash, CashWord(2, 0), ordinal)
         [] shape = 7 ->
              WriteCall(VAULT_0, "deposit", TRUE, cash, CashWord(2, 0), ordinal)
         [] shape = 8 ->
              WriteCall(VAULT_0, "repay", FALSE, cash, CashWord(2, 0), ordinal)

\* a call to the factory that deploys the pool, its PoolDeployed log and
\* its PoolConfig log
DeployCall(pool, r0, r1, ordinal) ==
    [address |-> EULERSWAP_FACTORY, sig |-> "deployPool", state_reverted |-> FALSE,
     logs |-> << [address |-> EULERSWAP_FACTORY, ordinal |-> ordinal,
                  ev |-> PoolDeployed(pool)],
                 [address |-> EULERSWAP_FACTORY, ordinal |-> ordinal + 1,
                  ev |-> PoolConfig(pool, r0, r1)] >>,
     storage_changes |-> <<>>]

\* the registry after a block that deployed pool A
RegistryWithPoolA ==
    LET blk == << [index |-> 0, calls |-> <<DeployCall(POOL_A, 0, 0, 1)>>] >>
    IN store_protocol_components(map_protocol_components(blk), EmptyStore).store

\* the most calls of the transaction
MaxVaultCalls == 3

\* a transaction of up to MaxVaultCalls calls; the ordinals of their writes
\* are any order of 1..n (a nested call's writes precede the later writes of
\* the call that made it)
VaultInit ==
    /\ store = RegistryWithPoolA
    /\ \E n \in 1..MaxVaultCalls :
         \E shapes \in [1..n -> VaultCallShapes] :
           \E ords \in Permutations(1..n) :
             transaction = [index |-> 0,
                            calls |-> [i \in 1..n |-> VaultCall(shapes[i], ords[i])]]
    /\ vault_balances = EmptyMap
    /\ cursor = 0
    /\ CashIdle
    /\ PipelineIdle

\* the next storage change of the transaction is visited
VisitStorageChange ==
    /\ cursor < Len(VisitedChanges(transaction))
    /\ vault_balances' =
         VisitChange(vault_balances, store, VisitedChanges(transaction)[cursor + 1])
    /\ cursor' = cursor + 1
    /\ UNCHANGED <<store, transaction, cashVars, pipelineVars>>

VaultNext == VisitStorageChange

SpecVault == VaultInit /\ [][VaultNext]_vars

\* all storage changes were visited
VaultDone == cursor = Len(VisitedChanges(transaction))

\* the qualifying cash-slot writes of the transaction on a vault
QualifyingWrites(vault) ==
    { sc \in { VisitedChanges(transaction)[i] :
                 i \in 1..Len(VisitedChanges(transaction)) } :
        sc.address = vault /\ sc.key = get_storage_key_for_vault_cash }

\* the token a vault of pool A holds
AssetOf(vault) == IF vault = VAULT_0 THEN TOKEN_0 ELSE TOKEN_1

\* C1: whatever the order of the visits, each (vault, token) pair with a
\* qualifying write ends with exactly one snapshot, whose value is decoded
\* from the write of the greatest ordinal
C1_GreatestOrdinalWins ==
    VaultDone =>
        \A vault \in {VAULT_0, VAULT_1} :
            LET ws == QualifyingWrites(vault)
            IN IF ws = {} THEN vault \notin DOMAIN vault_balances
               ELSE /\ vault \in DOMAIN vault_balances
                    /\ DOMAIN vault_balances[vault] = {AssetOf(vault)}
                    /\ LET last == CHOOSE w \in ws :
                                      \A x \in ws : x.ordinal <= w.ordinal
                       IN vault_balances[vault][AssetOf(vault)].value
                            = CashValue(last.new_value)

(***************************************************************************)
(* Specification of the pipeline: blocks are assembled call by call and    *)
(* handed to the five handlers in dependency order                         *)
(***************************************************************************)

\* a call whose PoolDeployed log has no PoolConfig log with it
DeployNoConfigCall(pool, ordinal) ==
    [address |-> EULERSWAP_FACTORY, sig |-> "deployPool", state_reverted |-> FALSE,
     logs |-> << [address |-> EULERSWAP_FACTORY, ordinal |-> ordinal,
                  ev |-> PoolDeployed(pool)] >>,
     storage_changes |-> <<>>]

\* a call of another contract that emits a PoolConfig-shaped log
ConfigOnlyCall(pool, r0, r1, ordinal) ==
    [address |-> STRANGER, sig |-> "other", state_reverted |-> FALSE,
     logs |-> << [address |-> STRANGER, ordinal |-> ordinal,
                  ev |-> PoolConfig(pool, r0, r1)] >>,
     storage_changes |-> <<>>]

\* a call of a contract that emits a Swap log
SwapCall(emitter, a0in, a1in, a0out, a1out, ordinal) ==
    [address |-> emitter, sig |-> "swap", state_reverted |-> FALSE,
     logs |-> << [address |-> emitter, ordinal |-> ordinal,
                  ev |-> Swap(a0in, a1in, a0out, a1out)] >>,
     storage_changes |-> <<>>]

\* a call of the vault factory that emits ProxyCreated
ProxyCall(proxy, ordinal) ==
    [address |-> EVK_GENERIC_FACTORY, sig |-> "createProxy", state_reverted |-> FALSE,
     logs |-> << [address |-> EVK_GENERIC_FACTORY, ordinal |-> ordinal,
                  ev |-> ProxyCreated(proxy)] >>,
     storage_changes |-> <<>>]

\* the calls the blocks are made of
PipelineCallShapes == 1..9
PipelineCall(shape, ordinal) ==
    CASE shape = 1 -> DeployCall(POOL_A, 100, 0, ordinal)
      [] shape = 2 -> DeployCall(POOL_B, 0, 50, ordinal)
      [] shape = 3 -> DeployNoConfigCall(POOL_A, ordinal)
      [] shape = 4 -> ConfigOnlyCall(POOL_A, 7, 7, ordinal)
      [] shape = 5 -> SwapCall(POOL_A, 50, 0, 0, 30, ordinal)
      [] shape = 6 -> ProxyCall(Addr(178), ordinal)
      [] shape = 7 -> WriteCall(VAULT_0, "deposit", FALSE,
                                get_storage_key_for_vault_cash, CashWord(1, 0), ordinal)
      [] shape = 8 -> WriteCall(POOL_A, "swap", FALSE, OtherSlotKey,
                                CashWord(2, 0), ordinal)
      [] shape = 9 -> WriteCall(STRANGER, "transfer", FALSE,
                                get_storage_key_for_vault_cash, CashWord(2, 0), ordinal)

\* the most transactions of a block, blocks of a run and calls of a run
MaxTxs == 2
MaxBlocks == 2
MaxCalls == 2

\* the calls of a block
RECURSIVE CallCount(_)
CallCount(blk) == IF blk = <<>> THEN 0 ELSE Len(Head(blk).calls) + CallCount(Tail(blk))

\* the ordinal the next call of the block starts at (a call takes up to two)
NextOrdinal(blk) == 1 + 2 * CallCount(blk)

Init ==
    /\ block = <<>>
    /\ stage = "assemble"
    /\ height = 0
    /\ calls_used = 0
    /\ tx_components = <<>>
    /\ balance_deltas = <<>>
    /\ balance_store = EmptyMap
    /\ store_deltas = <<>>
    /\ changes = <<>>
    /\ produced = {}
    /\ store = EmptyStore
    /\ VaultIdle
    /\ CashIdle

\* the block gets one more transaction
BeginTransaction ==
    /\ stage = "assemble"
    /\ Len(block) < MaxTxs
    /\ block' = Append(block, [index |-> Len(block), calls |-> <<>>])
    /\ UNCHANGED <<stage, height, calls_used, tx_components, balance_deltas,
                   balance_store, store_deltas, changes, produced, store,
                   vaultVars, cashVars>>

\* the last transaction of the block gets one more call
AddCall ==
    /\ stage = "assemble"
    /\ block # <<>>
    /\ calls_used < MaxCalls
    /\ \E shape \in PipelineCallShapes :
         block' = [block EXCEPT ![Len(block)].calls =
                      Append(@, PipelineCall(shape, NextOrdinal(block)))]
    /\ calls_used' = calls_used + 1
    /\ UNCHANGED <<stage, height, tx_components, balance_deltas, balance_store,
                   store_deltas, changes, produced, store, vaultVars, cashVars>>

\* the host hands the block to the pipeline
DeliverBlock ==
    /\ stage = "assemble"
    /\ block # <<>>
    /\ stage' = "map_protocol_components"
    /\ UNCHANGED <<block, height, calls_used, tx_components, balance_deltas,
                   balance_store, store_deltas, changes, produced, store,
                   vaultVars, cashVars>>

\* the ids of the components of a builder output
ComponentIds(tx_comps) ==
    {AllComponents(tx_comps)[i].id : i \in 1..Len(AllComponents(tx_comps))}

MapProtocolComponents ==
    /\ stage = "map_protocol_components"
    /\ tx_components' = map_protocol_components(block)
    /\ produced' = produced \cup ComponentIds(map_protocol_components(block))
    /\ stage' = "store_protocol_components"
    /\ UNCHANGED <<block, height, calls_used, balance_deltas, balance_store,
                   store_deltas, changes, store, vaultVars, cashVars>>

\* a panic of a handler fails the block: the host keeps none of the
\* handler's writes and the stream halts
StoreProtocolComponents ==
    /\ stage = "store_protocol_components"
    /\ LET r == store_protocol_components(tx_components, store)
       IN IF r.panicked
          THEN stage' = "failed" /\ store' = store
          ELSE stage' = "map_relative_component_balance" /\ store' = r.store
    /\ UNCHANGED <<block, height, calls_used, tx_components, balance_deltas,
                   balance_store, store_deltas, changes, produced,
                   vaultVars, cashVars>>

MapRelativeComponentBalance ==
    /\ stage = "map_relative_component_balance"
    /\ LET r == map_relative_component_balance(block, store)
       IN IF r.panicked
          THEN stage' = "failed" /\ balance_deltas' = balance_deltas
          ELSE stage' = "store_balances" /\ balance_deltas' = r.deltas
    /\ UNCHANGED <<block, height, calls_used, tx_components, balance_store,
                   store_deltas, changes, produced, store, vaultVars, cashVars>>

StoreBalances ==
    /\ stage = "store_balances"
    /\ balance_store' = store_balances(balance_deltas, balance_store)
    /\ store_deltas' = StoreDeltasOf(balance_deltas, balance_store)
    /\ stage' = "map_protocol_changes"
    /\ UNCHANGED <<block, height, calls_used, tx_components, balance_deltas,
                   changes, produced, store, vaultVars, cashVars>>

\* the builders are drained in any order
MapProtocolChanges ==
    /\ stage = "map_protocol_changes"
    /\ \E order \in DrainOrders(TransactionChangesOf(block, tx_components, store,
                                                     store_deltas, balance_deltas)) :
         changes' = map_protocol_changes(block, tx_components, store, store_deltas,
                                         balance_deltas, order)
    /\ stage' = "done"
    /\ UNCHANGED <<block, height, calls_used, tx_components, balance_deltas,
                   balance_store, store_deltas, produced, store, vaultVars, cashVars>>

\* the next block is assembled; the outputs of the last are gone
NextBlock ==
    /\ stage = "done"
    /\ height + 1 < MaxBlocks
    /\ height' = height + 1
    /\ stage' = "assemble"
    /\ block' = <<>>
    /\ tx_components' = <<>>
    /\ balance_deltas' = <<>>
    /\ store_deltas' = <<>>
    /\ changes' = <<>>
    /\ UNCHANGED <<calls_used, balance_store, produced, store, vaultVars, cashVars>>

Next ==
    \/ BeginTransaction
    \/ AddCall
    \/ DeliverBlock
    \/ MapProtocolComponents
    \/ StoreProtocolComponents
    \/ MapRelativeComponentBalance
    \/ StoreBalances
    \/ MapProtocolChanges
    \/ NextBlock

Spec == Init /\ [][Next]_vars

(***************************************************************************)
(* Properties of the pipeline                                              *)
(***************************************************************************)

\* the component ids the registry holds: the values of its pool:<id> keys
RegisteredIds(st) ==
    {st[k] : k \in {x \in DOMAIN st : x = pool_key(st[x])}}

\* C5: once store_protocol_components has had the builder's output, the ids
\* in the registry are exactly the ids of the components the builder
\* returned so far, from either factory branch
C5_RegistryEqualsProduced ==
    stage # "store_protocol_components" => RegisteredIds(store) = produced

\* the registered pools that hold the address as vault0 or vault1
OwningPools(st, address) ==
    {p \in RegisteredIds(st) :
        \/ get_last(st, pool_vault_key(p, TRUE)) = <<store_address(address)>>
        \/ get_last(st, pool_vault_key(p, FALSE)) = <<store_address(address)>>}

IsRegisteredVault(st, address) ==
    is_some(get_last(st, vault_key(store_address(address))))

\* the change-set carries the update marker of the component
MarkedUpdated(cs, component_id) ==
    /\ component_id \in DOMAIN cs.entity_changes
    /\ "update_marker" \in DOMAIN cs.entity_changes[component_id]

\* C2: a change-set with a changed contract that is a registered vault marks
\* every pool owning the vault as updated, and never marks the vault address
\* itself as a component
C2_VaultChangeMarksOwningPool ==
    stage = "done" =>
        \A i \in 1..Len(changes) :
            \A a \in DOMAIN changes[i].contract_changes :
                IsRegisteredVault(store, a) =>
                    /\ \A p \in OwningPools(store, a) : MarkedUpdated(changes[i], p)
                    /\ ~MarkedUpdated(changes[i], store_address(a))

\* C6: the change-sets of a block are strictly ascending in transaction
\* index, so sorted and at most one per transaction
C6_ChangesStrictlyAscending ==
    \A i, j \in 1..Len(changes) : i < j => changes[i].index < changes[j].index

\* C6 witness: two change-sets, the builder of the later transaction made
\* first (it holds a created component, the earlier one does not)
C6_Witness ==
    /\ stage = "done"
    /\ Len(changes) = 2
    /\ DOMAIN changes[1].component_changes = {}
    /\ DOMAIN changes[2].component_changes # {}

\* what gives a transaction a change-set: a created component, a balance
\* delta, a storage diff on an accepted address, a vault cash snapshot
HasActivity(tx) ==
    \/ TxComponents(tx) # <<>>
    \/ \E i \in 1..Len(balance_deltas) : balance_deltas[i].tx = tx.index
    \/ \E i \in 1..Len(TxStorageChanges(tx)) :
          InterestingAddress(store, TxStorageChanges(tx)[i].address)
    \/ DOMAIN get_eulerswap_vaults_balances(tx, store) # {}

\* C7: a transaction without activity has no change-set in the output, a
\* transaction with activity has exactly one
C7_ChangeSetIffActivity ==
    stage = "done" =>
        /\ \A t \in 1..Len(block) :
             Cardinality({i \in 1..Len(changes) : changes[i].index = block[t].index})
               = IF HasActivity(block[t]) THEN 1 ELSE 0
        /\ \A i \in 1..Len(changes) :
             \E t \in 1..Len(block) : block[t].index = changes[i].index

\* C7 witness: a block with a transaction that holds a call and has no
\* activity, next to a transaction with activity, one change-set emitted
C7_Witness ==
    /\ stage = "done"
    /\ Len(changes) = 1
    /\ \E t \in 1..Len(block) : block[t].calls # <<>> /\ ~HasActivity(block[t])
    /\ \E t \in 1..Len(block) : HasActivity(block[t])

\* the deltas of the block that carry the ordinal of a log
DeltasOfLog(ordinal) ==
    LET OfLog(d) == d.ord = ordinal
    IN SelectSeq(balance_deltas, OfLog)

\* a delta as (transaction, component, token, amount)
DeltaFacts(deltas) ==
    {<<deltas[i].tx, deltas[i].component_id, deltas[i].token,
       from_signed_bytes_be(deltas[i].delta)>> : i \in 1..Len(deltas)}

\* the deployments of a transaction: the PoolDeployed logs of its calls to
\* the factory that decode as deployPool
DeploymentsOf(tx) ==
    LET IsDeployment(e) ==
            /\ e.call.address = EULERSWAP_FACTORY
            /\ e.call.sig = "deployPool"
            /\ e.log.ev.type = "PoolDeployed"
    IN SelectSeq(LogsWithCalls(tx), IsDeployment)

\* the PoolConfig logs of a transaction for a pool
ConfigsOf(tx, pool) ==
    LET IsConfig(e) == e.log.ev.type = "PoolConfig" /\ e.log.ev.pool = pool
    IN SelectSeq(LogsWithCalls(tx), IsConfig)

\* the map stage of the block has run
DeltasMapped == stage \in {"store_balances", "map_protocol_changes", "done"}

\* C10: a transaction with one factory deployment and its one configuration
\* event with reserves (r0, r1) yields one created component with two
\* tokens, and the deployment's deltas are +r0 on asset0 if r0 > 0 and +r1 on
\* asset1 if r1 > 0, nothing else
C10_DeploymentScenario ==
    DeltasMapped =>
        \A t \in 1..Len(block) :
            LET tx == block[t]
                deployments == DeploymentsOf(tx)
            IN (Len(deployments) = 1
                 /\ Len(ConfigsOf(tx, deployments[1].log.ev.pool)) = 1) =>
                 LET dep == deployments[1].log
                     cfg == ConfigsOf(tx, dep.ev.pool)[1].log.ev
                     r0 == cfg.initial_state[1]
                     r1 == cfg.initial_state[2]
                     id == format_pool_id(dep.ev.pool)
                 IN /\ Len(TxComponents(tx)) = 1
                    /\ Len(TxComponents(tx)[1].tokens) = 2
                    /\ DeltaFacts(DeltasOfLog(dep.ordinal))
                         = {<<tx.index, id, dep.ev.asset0, r0>> : x \in {1} \cap {y \in {1} : r0 > 0}}
                           \cup {<<tx.index, id, dep.ev.asset1, r1>> : x \in {1} \cap {y \in {1} : r1 > 0}}
                    /\ Len(DeltasOfLog(dep.ordinal))
                         = (IF r0 > 0 THEN 1 ELSE 0) + (IF r1 > 0 THEN 1 ELSE 0)

(***************************************************************************)
(* map_relative_component_balance on its own: the block and the registry   *)
(* are drawn, the extractor and the aggregator are applied                 *)
(***************************************************************************)

\* the Swap log whose non-zero amounts are the set bits of the mask: 50 and
\* 300 flowing in, 200 and 30 flowing out
MaskedSwapCall(emitter, mask, ordinal) ==
    SwapCall(emitter,
             IF mask % 2 = 1 THEN 50 ELSE 0,
             IF (mask \div 2) % 2 = 1 THEN 300 ELSE 0,
             IF (mask \div 4) % 2 = 1 THEN 200 ELSE 0,
             IF (mask \div 8) % 2 = 1 THEN 30 ELSE 0,
             ordinal)

\* a call of another contract than the factory with a PoolDeployed log and
\* a PoolConfig log: no component is built for the pool
StrayDeployCall(pool, r0, r1, ordinal) ==
    [address |-> STRANGER, sig |-> "other", state_reverted |-> FALSE,
     logs |-> << [address |-> STRANGER, ordinal |-> ordinal,
                  ev |-> PoolDeployed(pool)],
                 [address |-> STRANGER, ordinal |-> ordinal + 1,
                  ev |-> PoolConfig(pool, r0, r1)] >>,
     storage_changes |-> <<>>]

\* the calls the drawn blocks are made of
DeltaCallShapes == 1..23
DeltaCall(shape, ordinal) ==
    CASE shape \in 1..16 -> MaskedSwapCall(POOL_A, shape - 1, ordinal)
      [] shape = 17 -> SwapCall(POOL_B, 50, 0, 0, 30, ordinal)
      [] shape = 18 -> DeployCall(POOL_A, 0, 0, ordinal)
      [] shape = 19 -> DeployCall(POOL_A, 100, 0, ordinal)
      [] shape = 20 -> DeployCall(POOL_A, 0, 100, ordinal)
      [] shape = 21 -> DeployCall(POOL_A, 100, 100, ordinal)
      [] shape = 22 -> DeployNoConfigCall(POOL_A, ordinal)
      [] shape = 23 -> StrayDeployCall(POOL_B, 100, 100, ordinal)

\* the most transactions of a drawn block, each of one call
MaxDeltaCalls == 2

\* the block of the shapes: transaction i holds call i, or one transaction
\* holds all the calls
DeltaBlock(shapes, together) ==
    IF together
    THEN << [index |-> 0,
             calls |-> [i \in 1..Len(shapes) |-> DeltaCall(shapes[i], 2 * i - 1)]] >>
    ELSE [i \in 1..Len(shapes) |->
             [index |-> i - 1, calls |-> <<DeltaCall(shapes[i], 2 * i - 1)>>]]

\* the registry is the one store_protocol_components leaves for the block,
\* on top of an earlier registry
DeltaInit ==
    /\ \E n \in 1..MaxDeltaCalls : \E shapes \in [1..n -> DeltaCallShapes] :
          \E together \in BOOLEAN : block = DeltaBlock(shapes, together)
    /\ \E earlier \in {EmptyStore, RegistryWithPoolA} :
          store = store_protocol_components(map_protocol_components(block),
                                            earlier).store
    /\ stage = "map_relative_component_balance"
    /\ height = 0
    /\ calls_used = 0
    /\ tx_components = map_protocol_components(block)
    /\ balance_deltas = <<>>
    /\ balance_store = EmptyMap
    /\ store_deltas = <<>>
    /\ changes = <<>>
    /\ produced = ComponentIds(tx_components)
    /\ VaultIdle
    /\ CashIdle

DeltaNext ==
    \/ MapRelativeComponentBalance
    \/ StoreBalances

SpecDelta == DeltaInit /\ [][DeltaNext]_vars

\* the pool of the id is in the registry
IsRegisteredPool(st, pool_id) == is_some(get_last(st, pool_key(pool_id)))

\* C8: no balance delta of the block has the value zero
C8_NoZeroDelta ==
    \A i \in 1..Len(balance_deltas) :
        /\ from_signed_bytes_be(balance_deltas[i].delta) # 0
        /\ balance_deltas[i].delta # <<0>>
        /\ balance_deltas[i].delta # <<>>

\* C8 witness: the extractor has run on a block with a Swap log of a
\* registered pool and a deployment, each with a zero and a non-zero amount
C8_Witness ==
    /\ stage = "store_balances"
    /\ balance_deltas # <<>>
    /\ \E i \in 1..Len(BlockLogs(block)) :
          LET log == BlockLogs(block)[i].log
          IN /\ log.ev.type = "Swap"
             /\ IsRegisteredPool(store, format_pool_id(log.address))
             /\ log.ev.amount0_in = 0
             /\ log.ev.amount1_out # 0
    /\ \E i \in 1..Len(BlockLogs(block)) :
          LET log == BlockLogs(block)[i].log
          IN /\ log.ev.type = "PoolConfig"
             /\ log.ev.initial_state[1] # 0
             /\ log.ev.initial_state[2] = 0

\* a delta as (transaction, component, encoded token, amount)
EncodedDeltaFacts(deltas) ==
    {<<deltas[i].tx, deltas[i].component_id, store_address(deltas[i].token),
       from_signed_bytes_be(deltas[i].delta)>> : i \in 1..Len(deltas)}

\* the non-zero members of a set of (transaction, component, token, amount)
NonZeroFacts(facts) == {f \in facts : f[4] # 0}

\* C9: a Swap log of a registered pool has exactly one delta per non-zero
\* amount: +amount0In and -amount0Out on the registered asset0, +amount1In
\* and -amount1Out on the registered asset1, all of the pool's component id
C9_SwapDeltas ==
    stage \in {"store_balances", "map_protocol_changes"} =>
        \A i \in 1..Len(BlockLogs(block)) :
            LET entry == BlockLogs(block)[i]
                ev == entry.log.ev
                id == format_pool_id(entry.log.address)
            IN (ev.type = "Swap" /\ IsRegisteredPool(store, id)) =>
                 LET asset0 == store[pool_asset_key(id, TRUE)]
                     asset1 == store[pool_asset_key(id, FALSE)]
                     expected == NonZeroFacts({
                         <<entry.tx, id, asset0, ev.amount0_in>>,
                         <<entry.tx, id, asset1, ev.amount1_in>>,
                         <<entry.tx, id, asset0, 0 - ev.amount0_out>>,
                         <<entry.tx, id, asset1, 0 - ev.amount1_out>>})
                 IN /\ EncodedDeltaFacts(DeltasOfLog(entry.log.ordinal)) = expected
                    /\ Len(DeltasOfLog(entry.log.ordinal)) = Cardinality(expected)

\* C9 witness: the Swap of amount0In = 50 and amount1Out = 30, the other
\* amounts zero, on a registered pool, with its two deltas
C9_Witness ==
    /\ stage = "store_balances"
    /\ \E i \in 1..Len(BlockLogs(block)) :
          LET entry == BlockLogs(block)[i]
              ev == entry.log.ev
          IN /\ ev.type = "Swap"
             /\ IsRegisteredPool(store, format_pool_id(entry.log.address))
             /\ ev.amount0_in = 50 /\ ev.amount1_in = 0
             /\ ev.amount0_out = 0 /\ ev.amount1_out = 30
             /\ Len(DeltasOfLog(entry.log.ordinal)) = 2

(***************************************************************************)
(* Properties of the aggregator                                            *)
(***************************************************************************)

\* the sum of the deltas of a (component, token), from the last delta back
RECURSIVE DeltaSum(_, _)
DeltaSum(deltas, key) ==
    IF deltas = <<>> THEN 0
    ELSE (IF BalanceKey(deltas[Len(deltas)]) = key
          THEN from_signed_bytes_be(deltas[Len(deltas)].delta) ELSE 0)
         + DeltaSum(SubSeq(deltas, 1, Len(deltas) - 1), key)

\* the (component, token) pairs of a store and a delta sequence
BalanceKeys(bs, deltas) ==
    DOMAIN bs \cup {BalanceKey(deltas[i]) : i \in 1..Len(deltas)}

\* the deltas in the order of a permutation of their positions
Reordered(deltas, p) == [i \in 1..Len(deltas) |-> deltas[p[i]]]

\* C11: the balances start at zero, and every step leaves each (component,
\* token) at its balance plus the sum of the deltas the aggregator applies
\* in that step (none outside store_balances), so the balance is the sum of
\* all deltas emitted so far; applying the deltas of the block in any
\* other order ends in the same balances
C11_BalanceIsSumOfDeltas ==
    [][ /\ \A key \in BalanceKeys(balance_store, balance_deltas) \cup DOMAIN balance_store' :
             BalanceOf(balance_store', key)
               = BalanceOf(balance_store, key)
                 + (IF stage = "store_balances"
                    THEN DeltaSum(balance_deltas, key) ELSE 0)
        /\ stage = "store_balances" =>
             \A p \in Permutations(1..Len(balance_deltas)) :
                 \A key \in BalanceKeys(balance_store, balance_deltas) :
                     BalanceOf(store_balances(Reordered(balance_deltas, p),
                                              balance_store), key)
                       = BalanceOf(balance_store', key)
      ]_vars

\* C11 witness: in a later block the aggregator has added deltas to a balance
\* that earlier blocks left non-zero, and the block had several deltas
C11_Witness ==
    /\ stage = "map_protocol_changes"
    /\ height > 0
    /\ Len(balance_deltas) > 1
    /\ \E key \in DOMAIN balance_store :
          /\ DeltaSum(balance_deltas, key) # 0
          /\ balance_store[key] # DeltaSum(balance_deltas, key)

\* the balances after store_balances is applied once more to the deltas of
\* the block it has just applied
SecondApplication == store_balances(balance_deltas, balance_store)

\* C12 as stated: a second application of the fold over the same deltas
\* leaves every (component, token) at its balance after the first
C12_SecondApplicationChangesNothing ==
    stage = "map_protocol_changes" =>
        \A key \in BalanceKeys(balance_store, balance_deltas) :
            BalanceOf(SecondApplication, key) = BalanceOf(balance_store, key)

\* C12: a second application of the fold over the same deltas adds them
\* again: every (component, token) ends at its balance after the first
\* application plus the sum of the sequence's deltas for it
C12_SecondApplicationAddsAgain ==
    stage = "map_protocol_changes" =>
        \A key \in BalanceKeys(balance_store, balance_deltas) :
            BalanceOf(SecondApplication, key)
              = BalanceOf(balance_store, key) + DeltaSum(balance_deltas, key)

\* C12 witness: the fold was applied to deltas that do not sum to zero, and a
\* second application would move the balance
C12_Witness ==
    /\ stage = "map_protocol_changes"
    /\ \E key \in DOMAIN balance_store :
          /\ DeltaSum(balance_deltas, key) # 0
          /\ BalanceOf(SecondApplication, key) # balance_store[key]

\* C13: no (component, token) has a balance below zero
C13_BalancesNonNegative ==
    \A key \in DOMAIN balance_store : balance_store[key] >= 0

(***************************************************************************)
(* Properties of the cash extraction                                       *)
(***************************************************************************)

\* the 32-byte key of value 2
KeyOfValueTwo == [i \in 1..32 |-> IF i = 32 THEN 2 ELSE 0]

\* C14: the visit of a storage write whose slot key is not the 32-byte key
\* of value 2 leaves the snapshots as they were, none created and none
\* modified
C14_OtherSlotLeavesSnapshots ==
    [][ (/\ cursor < Len(VisitedChanges(transaction))
         /\ VisitedChanges(transaction)[cursor + 1].key # KeyOfValueTwo)
        => vault_balances' = vault_balances ]_vars

\* C14 witness: a write to another slot of a registered vault, in a deposit
\* that was not reverted, has been visited after a snapshot of that vault
\* was taken, and the snapshot still has the earlier value
C14_Witness ==
    /\ cursor > 1
    /\ LET sc == VisitedChanges(transaction)[cursor]
       IN /\ sc.key # KeyOfValueTwo
          /\ sc.address = VAULT_0
          /\ VAULT_0 \in DOMAIN vault_balances
          /\ vault_balances[VAULT_0][TOKEN_0].value # CashValue(sc.new_value)

(***************************************************************************)
(* Properties of the deployment's configuration event                      *)
(***************************************************************************)

\* the block holds a PoolDeployed log of a registered pool and no PoolConfig
\* log that carries the pool's address
MissingPoolConfig ==
    \E i \in 1..Len(BlockLogs(block)) :
        LET ev == BlockLogs(block)[i].log.ev
        IN /\ ev.type = "PoolDeployed"
           /\ IsRegisteredPool(store, format_pool_id(ev.pool))
           /\ \A j \in 1..Len(BlockLogs(block)) :
                 LET other == BlockLogs(block)[j].log.ev
                 IN ~(other.type = "PoolConfig" /\ other.pool = ev.pool)

\* C15: with a PoolDeployed log of a registered pool and no PoolConfig log
\* for its pool in the block, map_relative_component_balance fails the
\* block: no later stage runs and the block has no deltas and no change-sets
C15_MissingConfigFailsBlock ==
    [][ MissingPoolConfig =>
          /\ stage = "map_relative_component_balance" => stage' = "failed"
          /\ stage' \notin {"store_balances", "map_protocol_changes", "done"}
          /\ balance_deltas' = <<>>
          /\ changes' = <<>> ]_vars

\* C15 witness: the block failed in map_relative_component_balance on a
\* deployment that has no PoolConfig log
C15_Witness ==
    /\ stage = "failed"
    /\ MissingPoolConfig
    /\ ~store_protocol_components(tx_components, store).panicked
    /\ balance_deltas = <<>>
    /\ changes = <<>>

\* the deltas a deployment log has with the reserves of a PoolConfig event
ReserveFacts(entry, cfg) ==
    NonZeroFacts({
        <<entry.tx, format_pool_id(entry.log.ev.pool), entry.log.ev.asset0,
          cfg.initial_state[1]>>,
        <<entry.tx, format_pool_id(entry.log.ev.pool), entry.log.ev.asset1,
          cfg.initial_state[2]>>})

\* the PoolConfig events of the pool emitted in the transaction
SameTxConfigs(tx_index, pool) ==
    {BlockLogs(block)[j].log.ev : j \in
        {k \in 1..Len(BlockLogs(block)) :
            /\ BlockLogs(block)[k].tx = tx_index
            /\ BlockLogs(block)[k].log.ev.type = "PoolConfig"
            /\ BlockLogs(block)[k].log.ev.pool = pool}}

\* C16: once the deltas of a block are out, every PoolDeployed log of a
\* registered pool has the deltas of the reserves of a PoolConfig event of
\* its own transaction that carries its pool address; without one the
\* block would have failed
C16_ConfigFromSameTransaction ==
    DeltasMapped =>
        \A i \in 1..Len(BlockLogs(block)) :
            LET entry == BlockLogs(block)[i]
            IN (/\ entry.log.ev.type = "PoolDeployed"
                /\ IsRegisteredPool(store, format_pool_id(entry.log.ev.pool))) =>
                 \E cfg \in SameTxConfigs(entry.tx, entry.log.ev.pool) :
                     DeltaFacts(DeltasOfLog(entry.log.ordinal)) = ReserveFacts(entry, cfg)

(***************************************************************************)
(* maybe_create_component on its own: a call and one of its logs are       *)
(* drawn, the function is applied                                          *)
(***************************************************************************)

\* the targets, signatures and events the drawn pairs are made of
CreateTargets ==
    {EULERSWAP_FACTORY, EVK_GENERIC_FACTORY, EULERSWAP_PERIPHERY, POOL_A, STRANGER}
CreateSigs == {"deployPool", "createProxy", "swap", "other"}
CreateEvents ==
    {PoolDeployed(POOL_A), PoolDeployed(POOL_B), PoolConfig(POOL_A, 100, 0),
     Swap(50, 0, 0, 30), ProxyCreated(VAULT_0), ProxyCreated(Addr(178))}

\* a call and a log it emitted, at its own address or at another
CreateInit ==
    /\ \E target \in CreateTargets, sig \in CreateSigs, ev \in CreateEvents,
          reverted \in BOOLEAN :
        \E emitter \in {target, STRANGER} :
          arg = [call |-> [address |-> target, sig |-> sig,
                           state_reverted |-> reverted,
                           logs |-> << [address |-> emitter, ordinal |-> 1,
                                        ev |-> ev] >>,
                           storage_changes |-> <<>>],
                 log |-> [address |-> emitter, ordinal |-> 1, ev |-> ev]]
    /\ res = <<>>
    /\ store = EmptyStore
    /\ PipelineIdle
    /\ VaultIdle

\* the function applied to the drawn pair; res holds the Option returned
ApplyCreate ==
    /\ res = <<>>
    /\ res' = <<maybe_create_component(arg.call, arg.log)>>
    /\ UNCHANGED <<arg, store, pipelineVars, vaultVars>>

CreateNext == ApplyCreate

SpecCreate == CreateInit /\ [][CreateNext]_vars

\* the function has returned Some
CreatedSome == res # <<>> /\ res[1] # <<>>

\* the call is a deployment invocation of the factory it targets, the log
\* the deployment event paired with it
PoolDeploymentPair ==
    /\ arg.call.address = EULERSWAP_FACTORY
    /\ arg.call.sig = "deployPool"
    /\ arg.log.ev.type = "PoolDeployed"
VaultDeploymentPair ==
    /\ arg.call.address = EVK_GENERIC_FACTORY
    /\ arg.call.sig = "createProxy"
    /\ arg.log.ev.type = "ProxyCreated"

\* C17 as stated: a component is returned only if the target is a factory,
\* the call decodes as its deployment invocation and the log as the paired
\* deployment event
C17_ComponentOnlyIfBothDecode ==
    CreatedSome => (PoolDeploymentPair \/ VaultDeploymentPair)

\* C17: a component is returned exactly when the target is the pool factory
\* and both the call decodes as deployPool and the log as PoolDeployed, or
\* the target is the vault factory and the log decodes as ProxyCreated,
\* whatever the call; every other pair returns None, and the id is that of
\* the event's pool or proxy
C17_ComponentIffBranchDecodes ==
    res # <<>> =>
        /\ CreatedSome <=>
             \/ PoolDeploymentPair
             \/ /\ arg.call.address = EVK_GENERIC_FACTORY
                /\ arg.log.ev.type = "ProxyCreated"
        /\ Len(res[1]) <= 1
        /\ PoolDeploymentPair => res[1][1].id = format_pool_id(arg.log.ev.pool)
        /\ (CreatedSome /\ ~PoolDeploymentPair) =>
             res[1][1].id = format_pool_id(arg.log.ev.proxy)

\* C17 witness: a call of the vault factory that is not a deployment
\* invocation, with a ProxyCreated log: a component is returned
C17_Witness ==
    /\ CreatedSome
    /\ arg.call.address = EVK_GENERIC_FACTORY
    /\ arg.call.sig = "other"
    /\ arg.log.ev.type = "ProxyCreated"

(***************************************************************************)
(* decode_address on its own: a string is drawn, the function is applied   *)
(***************************************************************************)

\* the characters the drawn strings are made of: hex digits of either
\* case, the x of the prefix and a character that is no hex digit
DecodeChars == {"0", "x", "a", "F", "g"}

\* the longest string drawn character by character
MaxStrLen == 3

\* the strings of exactly n characters
RECURSIVE StringsOfLen(_)
StringsOfLen(n) ==
    IF n = 0 THEN {""}
    ELSE {s \o c : s \in StringsOfLen(n - 1), c \in DecodeChars}

\* the raw addresses whose encodings are drawn
DecodeAddresses == {POOL_A, TOKEN_0, VAULT_1, STRANGER, EVC_ADDRESS}

\* short strings of any shape, the encodings of addresses, and encodings
\* with a character cut off or with a non-hex character in them
DecodeInputs ==
    UNION {StringsOfLen(n) : n \in 0..MaxStrLen}
    \cup {store_address(a) : a \in DecodeAddresses}
    \cup {SubSeq(store_address(a), 1, 41) : a \in DecodeAddresses}
    \cup {SubSeq(store_address(a), 1, 40) \o "gg" : a \in DecodeAddresses}

DecodeInit ==
    /\ arg \in DecodeInputs
    /\ res = <<>>
    /\ store = EmptyStore
    /\ PipelineIdle
    /\ VaultIdle

\* the function applied to the drawn string; res holds what came of it
ApplyDecode ==
    /\ res = <<>>
    /\ res' = <<decode_address(arg)>>
    /\ UNCHANGED <<arg, store, pipelineVars, vaultVars>>

DecodeNext == ApplyDecode

SpecDecode == DecodeInit /\ [][DecodeNext]_vars

\* the characters of s after its first two are all hex digits
RECURSIVE AllHexFrom(_, _)
AllHexFrom(s, i) ==
    i > Len(s) \/ (HexVal(SubSeq(s, i, i)) >= 0 /\ AllHexFrom(s, i + 1))

\* a malformed address string: too short for the prefix, of odd length, or
\* with a character after the prefix that is no hex digit
Malformed(s) == Len(s) < 2 \/ Len(s) % 2 = 1 \/ ~AllHexFrom(s, 3)

\* C18: decode_address never aborts, returns the empty sequence for every
\* malformed string, and returns a for the encoding of a raw address a
C18_DecodeRecovers ==
    res # <<>> =>
        /\ res[1] # Panic
        /\ Malformed(arg) => res[1] = <<>>
        /\ \A a \in DecodeAddresses : arg = store_address(a) => res[1] = a

(***************************************************************************)
(* store_protocol_components on its own: block after block, the builder's  *)
(* output for drawn deployments is stored                                  *)
(***************************************************************************)

\* the PoolDeployed events of the drawn deployments: pool A with its assets
\* in either order and its vaults in either order or one vault for both,
\* and pool B
RegistryEvents ==
    {[type |-> "PoolDeployed", pool |-> POOL_A, asset0 |-> assets[1],
      asset1 |-> assets[2], vault0 |-> vaults[1], vault1 |-> vaults[2]] :
        assets \in {<<TOKEN_0, TOKEN_1>>, <<TOKEN_1, TOKEN_0>>},
        vaults \in {<<VAULT_0, VAULT_1>>, <<VAULT_1, VAULT_0>>, <<VAULT_0, VAULT_0>>}}
    \cup {PoolDeployed(POOL_B)}

\* the factory call of a deployment
RegistryCall(ev, ordinal) ==
    [address |-> EULERSWAP_FACTORY, sig |-> "deployPool", state_reverted |-> FALSE,
     logs |-> << [address |-> EULERSWAP_FACTORY, ordinal |-> ordinal, ev |-> ev] >>,
     storage_changes |-> <<>>]

\* the blocks: one transaction of one or two deployments
RegistryBlocks ==
    { << [index |-> 0, calls |-> <<RegistryCall(ev, 1)>>] >> : ev \in RegistryEvents }
    \cup
    { << [index |-> 0, calls |-> <<RegistryCall(ev1, 1), RegistryCall(ev2, 3)>>] >> :
        ev1 \in RegistryEvents, ev2 \in RegistryEvents }

\* the most blocks of a run
MaxRegistryBlocks == 2

RegistryInit ==
    /\ block = <<>>
    /\ stage = "store_protocol_components"
    /\ height = 0
    /\ calls_used = 0
    /\ tx_components = <<>>
    /\ balance_deltas = <<>>
    /\ balance_store = EmptyMap
    /\ store_deltas = <<>>
    /\ changes = <<>>
    /\ produced = {}
    /\ store = EmptyStore
    /\ VaultIdle
    /\ CashIdle

\* the next block: the builder's output for it is stored
RegisterBlock ==
    /\ height < MaxRegistryBlocks
    /\ \E blk \in RegistryBlocks :
         /\ block' = blk
         /\ tx_components' = map_protocol_components(blk)
         /\ produced' = produced \cup ComponentIds(map_protocol_components(blk))
         /\ LET r == store_protocol_components(map_protocol_components(blk), store)
            IN store' = IF r.panicked THEN store ELSE r.store
    /\ height' = height + 1
    /\ UNCHANGED <<stage, calls_used, balance_deltas, balance_store, store_deltas,
                   changes, vaultVars, cashVars>>

RegistryNext == RegisterBlock

SpecRegistry == RegistryInit /\ [][RegistryNext]_vars

\* the writes of store_protocol_components for one component, in order
ComponentWrites(pc) ==
    << <<pool_key(pc.id), pc.id>>,
       <<pool_asset_key(pc.id, TRUE), store_address(pc.tokens[1])>>,
       <<token_key(store_address(pc.tokens[1])), store_address(pc.tokens[1])>>,
       <<pool_asset_key(pc.id, FALSE), store_address(pc.tokens[2])>>,
       <<token_key(store_address(pc.tokens[2])), store_address(pc.tokens[2])>>,
       <<pool_vault_key(pc.id, TRUE), store_address(pc.contracts[2])>>,
       <<vault_key(store_address(pc.contracts[2])), store_address(pc.contracts[2])>>,
       <<vault_asset_key(store_address(pc.contracts[2])), store_address(pc.tokens[1])>>,
       <<pool_vault_key(pc.id, FALSE), store_address(pc.contracts[3])>>,
       <<vault_key(store_address(pc.contracts[3])), store_address(pc.contracts[3])>>,
       <<vault_asset_key(store_address(pc.contracts[3])), store_address(pc.tokens[2])>> >>

\* the writes of a block, in order
BlockWrites(tx_comps) ==
    Flatten([i \in 1..Len(AllComponents(tx_comps)) |->
                ComponentWrites(AllComponents(tx_comps)[i])])

\* the positions of the writes to a key
WritesTo(writes, key) == {i \in 1..Len(writes) : writes[i][1] = key}

\* the last of a non-empty set of positions
LastPosition(positions) == CHOOSE i \in positions : \A j \in positions : j <= i

\* C19: a block deletes no key of the registry, and after it get_last of a
\* key is the value of the block's last write to it, or, without a write
\* in the block, the value the key held before; a key never written is
\* absent
C19_RegistryForwardOnly ==
    [][ \A writes \in {BlockWrites(tx_components')} :
          /\ DOMAIN store \subseteq DOMAIN store'
          /\ \A key \in DOMAIN store' \cup {writes[i][1] : i \in 1..Len(writes)} :
                \A positions \in {WritesTo(writes, key)} :
                    get_last(store', key) =
                      IF positions # {} THEN <<writes[LastPosition(positions)][2]>>
                      ELSE get_last(store, key) ]_vars

\* C19 witness: after more than one block, the last block wrote a key more
\* than once with different values and the key holds the last of them,
\* next to keys of earlier blocks that it did not write
C19_Witness ==
    LET writes == BlockWrites(tx_components)
    IN /\ height > 1
       /\ \E key \in DOMAIN store :
             /\ \E i \in WritesTo(writes, key) : writes[i][2] # store[key]
             /\ writes[LastPosition(WritesTo(writes, key))][2] = store[key]
       /\ \E key \in DOMAIN store : WritesTo(writes, key) = {}

(***************************************************************************)
(* The storage diffs of map_protocol_changes on their own: a registry and  *)
(* a block of storage writes are drawn, the handler is applied             *)
(***************************************************************************)

\* the contracts written to: registered pool, vaults and token of pool A,
\* a pool that is not registered, the fixed addresses of the predicate, two
\* fixed addresses that are not in it, and a contract of no relation
DiffAddresses ==
    <<POOL_A, POOL_B, VAULT_0, VAULT_1, TOKEN_0, STRANGER,
      EVC_ADDRESS, EULERSWAP_PERIPHERY, EULERSWAP_IMPLEMENTATION,
      EVK_EVAULT_IMPL, EVK_VAULT_MODULE_IMPL, EVK_BORROWING_MODULE_IMPL,
      EVK_GOVERNANCE_MODULE_IMPL, EVK_GENERIC_FACTORY,
      PERMIT_2, EULERSWAP_FACTORY>>

\* the calls of the drawn blocks: a write to the cash slot of each address,
\* and a reverted one on pool A
DiffCallShapes == 1..(Len(DiffAddresses) + 1)
DiffCall(shape, ordinal) ==
    IF shape <= Len(DiffAddresses)
    THEN WriteCall(DiffAddresses[shape], "other", FALSE,
                   get_storage_key_for_vault_cash, CashWord(1, 0), ordinal)
    ELSE WriteCall(POOL_A, "other", TRUE,
                   get_storage_key_for_vault_cash, CashWord(2, 0), ordinal)

\* the most transactions of a drawn block, each of one call
MaxDiffTxs == 2

DiffBlock(shapes) ==
    [i \in 1..Len(shapes) |->
        [index |-> i - 1, calls |-> <<DiffCall(shapes[i], i)>>]]

DiffInit ==
    /\ \E n \in 1..MaxDiffTxs : \E shapes \in [1..n -> DiffCallShapes] :
          block = DiffBlock(shapes)
    /\ store \in {EmptyStore, RegistryWithPoolA}
    /\ stage = "map_protocol_changes"
    /\ height = 0
    /\ calls_used = 0
    /\ tx_components = <<>>
    /\ balance_deltas = <<>>
    /\ balance_store = EmptyMap
    /\ store_deltas = <<>>
    /\ changes = <<>>
    /\ produced = {}
    /\ VaultIdle
    /\ CashIdle

DiffNext == MapProtocolChanges

SpecDiffs == DiffInit /\ [][DiffNext]_vars

\* the fixed addresses whose storage diffs are kept
AllowListed ==
    {hex("0C9a3dd6b8F28529d72d7f9cE918D493519EE383"),
     hex("4fE0547e7Be0e9a9cED3aC948B83146996f899aE"),
     hex("270e7d14f304c0df91e50996072525b24978e17f"),
     hex("8ff1c814719096b61abf00bb46ead0c9a529dd7d"),
     hex("b4ad4d9c02c01b01cf586c16f01c58c73c7f0188"),
     hex("639156f8feb0cd88205e4861a0224ec169605acf"),
     hex("a61f5016f2cd5cec12d091f871fce1e1df5f0b67"),
     hex("29a56a1b8214d9cf7c5561811750d5cbdb45cc8e")}

\* the address is a registered pool, a registered vault or allow-listed
AcceptedAddress(address) ==
    \/ IsRegisteredPool(store, format_pool_id(address))
    \/ IsRegisteredVault(store, address)
    \/ address \in AllowListed

\* the change-set of the transaction holds the slot of the storage change
\* under the contract of its address
DiffAttached(tx_index, sc) ==
    \E i \in 1..Len(changes) :
        /\ changes[i].index = tx_index
        /\ sc.address \in DOMAIN changes[i].contract_changes
        /\ sc.key \in DOMAIN changes[i].contract_changes[sc.address].slots

\* the contract of the address has no entry in any change-set of the
\* transaction
ContractAbsent(tx_index, address) ==
    \A i \in 1..Len(changes) :
        changes[i].index = tx_index =>
            address \notin DOMAIN changes[i].contract_changes

\* C20: the storage diff of a call that was not reverted is in the
\* change-set of its transaction if and only if its address is a registered
\* pool, a registered vault or an allow-listed address; a diff on any other
\* address, a registered token's included, leaves no trace of that contract
C20_DiffAttachedIffAccepted ==
    stage = "done" =>
        \A t \in 1..Len(block) :
            \A i \in 1..Len(TxStorageChanges(block[t])) :
                \A sc \in {TxStorageChanges(block[t])[i]} :
                    IF AcceptedAddress(sc.address)
                    THEN DiffAttached(block[t].index, sc)
                    ELSE ContractAbsent(block[t].index, sc.address)

\* C20 witness: a block with a diff on a registered token, which is dropped
\* with its transaction, and a diff on an allow-listed address, attached
C20_Witness ==
    /\ stage = "done"
    /\ Len(block) = 2
    /\ Len(changes) = 1
    /\ \E t \in 1..2 : \E i \in 1..Len(TxStorageChanges(block[t])) :
        \E sc \in {TxStorageChanges(block[t])[i]} :
          /\ is_some(get_last(store, token_key(store_address(sc.address))))
          /\ ContractAbsent(block[t].index, sc.address)
    /\ \E t \in 1..2 : \E i \in 1..Len(TxStorageChanges(block[t])) :
        \E sc \in {TxStorageChanges(block[t])[i]} :
          /\ sc.address \in AllowListed
          /\ DiffAttached(block[t].index, sc)

(***************************************************************************)
(* Properties of the call filter of the vault snapshots                    *)
(***************************************************************************)

\* the signatures the specification lists for the mutating operations
ListedSigs == {"deposit", "withdraw", "borrow", "repay"}

\* the calls of the transaction that hold the storage write of an ordinal
CallsOfWrite(ordinal) ==
    { transaction.calls[i] : i \in
        { j \in 1..Len(transaction.calls) :
            \E k \in 1..Len(transaction.calls[j].storage_changes) :
                transaction.calls[j].storage_changes[k].ordinal = ordinal } }

\* C21: every snapshot held comes from a storage write of a call that is
\* not state-reverted and whose signature is one of deposit, withdraw,
\* borrow, repay; writes of reverted calls and of calls with any other
\* signature never create or change a snapshot
C21_SnapshotOnlyFromListedCall ==
    \A vault \in DOMAIN vault_balances :
        \A token \in DOMAIN vault_balances[vault] :
            \A call \in CallsOfWrite(vault_balances[vault][token].ordinal) :
                ~call.state_reverted /\ call.sig \in ListedSigs

(***************************************************************************)
(* Properties of the registry lookups of the vault snapshots               *)
(***************************************************************************)

\* the address of a storage write has no vault:<addr> entry or no
\* vault:<addr>:asset entry in the registry
UnknownAddress(st, address) ==
    \/ ~is_some(get_last(st, vault_key(store_address(address))))
    \/ ~is_some(get_last(st, vault_asset_key(store_address(address))))

\* the transaction without the storage writes of such addresses
WithoutUnknown(tx, st) ==
    [tx EXCEPT !.calls =
        [i \in 1..Len(tx.calls) |->
            [tx.calls[i] EXCEPT !.storage_changes =
                SelectSeq(tx.calls[i].storage_changes,
                          LAMBDA sc : ~UnknownAddress(st, sc.address))]]]

\* C22: a cash-slot write on an address without a vault:<addr> entry (or
\* without a vault:<addr>:asset entry) gives no snapshot, every storage
\* change is visited all the same, and the snapshots held at the end are
\* those of the transaction without these writes
C22_UnknownAddressDropped ==
    /\ \A address \in DOMAIN vault_balances : ~UnknownAddress(store, address)
    /\ cursor <= Len(VisitedChanges(transaction))
    /\ VaultDone =>
         vault_balances =
             get_eulerswap_vaults_balances(WithoutUnknown(transaction, store), store)

\* C22 witness: all writes were visited, one of them a cash-slot write on an
\* address the registry does not hold, in a deposit that was not reverted,
\* and a snapshot of a registered vault is held
C22_Witness ==
    /\ VaultDone
    /\ \E i \in 1..Len(VisitedChanges(transaction)) :
          /\ UnknownAddress(store, VisitedChanges(transaction)[i].address)
          /\ VisitedChanges(transaction)[i].key = get_storage_key_for_vault_cash
    /\ VAULT_0 \in DOMAIN vault_balances

(***************************************************************************)
(* Properties of the equal-value guard of add_change_if_accounted          *)
(***************************************************************************)

\* the storage change sc is a cash-slot write that decodes to the value of
\* the snapshot held for its vault and the vault's token
DecodesToHeld(vb, sc) ==
    /\ sc.key = get_storage_key_for_vault_cash
    /\ sc.address \in DOMAIN vb
    /\ AssetOf(sc.address) \in DOMAIN vb[sc.address]
    /\ vb[sc.address][AssetOf(sc.address)].value = CashValue(sc.new_value)

\* C23: when a snapshot is held for a (vault, token) pair and a further
\* cash-slot write decodes to the held value, add_change_if_accounted leaves
\* the snapshots as they are, value and ordinal, whatever the write's ordinal
C23_EqualValueKeepsSnapshot ==
    [][ \A sc \in { VisitedChanges(transaction)[i] :
                      i \in {cursor + 1} \cap 1..Len(VisitedChanges(transaction)) } :
          DecodesToHeld(vault_balances, sc) =>
            /\ add_change_if_accounted(vault_balances, sc, sc.address,
                                       AssetOf(sc.address)) = vault_balances
            /\ vault_balances' = vault_balances ]_vars

\* C23 witness: the write visited last has a greater ordinal than the
\* snapshot held for its vault and decodes to the held value from another
\* storage word, and the snapshot kept the smaller ordinal
C23_Witness ==
    /\ cursor > 1
    /\ LET sc == VisitedChanges(transaction)[cursor]
       IN /\ DecodesToHeld(vault_balances, sc)
          /\ vault_balances[sc.address][AssetOf(sc.address)].ordinal < sc.ordinal
          /\ \E i \in 1..(cursor - 1) :
               /\ VisitedChanges(transaction)[i].address = sc.address
               /\ VisitedChanges(transaction)[i].new_value # sc.new_value
               /\ VisitedChanges(transaction)[i].ordinal =
                    vault_balances[sc.address][AssetOf(sc.address)].ordinal

(***************************************************************************)
(* Properties of the balance-change records                                *)
(***************************************************************************)

\* the deltas of the block up to an ordinal
DeltasUpTo(ordinal) == SelectSeq(balance_deltas, LAMBDA d : d.ord <= ordinal)

\* the (component, token) keys a transaction of the block touched
TouchedKeys(tx_index) ==
    { BalanceKey(balance_deltas[i]) :
        i \in {j \in 1..Len(balance_deltas) : balance_deltas[j].tx = tx_index} }

\* the ordinal of the last delta of the transaction for the key
LastOrdinal(tx_index, key) ==
    LET is == {j \in 1..Len(balance_deltas) :
                  balance_deltas[j].tx = tx_index /\ BalanceKey(balance_deltas[j]) = key}
    IN balance_deltas[CHOOSE i \in is : \A j \in is :
                          balance_deltas[j].ord <= balance_deltas[i].ord].ord

\* the balance of the key before the block: the store after the block less
\* the deltas of the block
BalanceBeforeBlock(key) ==
    BalanceOf(balance_store, key) - DeltaSum(balance_deltas, key)

\* C24: every transaction with a delta in the block has one change-set, and
\* it holds one balance-change record per (component, token) the transaction
\* touched and no other; the record's value is the balance before the block
\* plus the block's deltas for the key up to the last delta of that
\* transaction in ordinal order, those of later transactions left out
C24_BalanceRecordIsRunningTotal ==
    stage = "done" =>
        \A tx_index \in {balance_deltas[i].tx : i \in 1..Len(balance_deltas)} :
            /\ Cardinality({i \in 1..Len(changes) : changes[i].index = tx_index}) = 1
            /\ \A i \in 1..Len(changes) :
                 changes[i].index = tx_index =>
                   /\ DOMAIN changes[i].balance_changes = TouchedKeys(tx_index)
                   /\ \A key \in TouchedKeys(tx_index) :
                        changes[i].balance_changes[key]
                          = BalanceBeforeBlock(key)
                            + DeltaSum(DeltasUpTo(LastOrdinal(tx_index, key)), key)

\* C24 witness: two transactions of a block touched the same (component,
\* token), and the record of the earlier one differs from the balance the
\* store holds after the block
C24_Witness ==
    /\ stage = "done"
    /\ Len(changes) = 2
    /\ \E key \in DOMAIN changes[1].balance_changes \cap DOMAIN changes[2].balance_changes :
          /\ changes[1].balance_changes[key] # changes[2].balance_changes[key]
          /\ changes[2].balance_changes[key] = balance_store[key]

(***************************************************************************)
(* Properties of the deltas of one transaction                             *)
(***************************************************************************)

\* the amounts a Swap log moves on one asset, in the order they are pushed,
\* zero amounts left out
SwapAmounts(ev, is_asset0) ==
    SelectSeq(IF is_asset0 THEN <<ev.amount0_in, 0 - ev.amount0_out>>
              ELSE <<ev.amount1_in, 0 - ev.amount1_out>>,
              LAMBDA a : a # 0)

\* the amounts of the deltas of a log on one (component, token), in order
AmountsOfLog(ordinal, pool_id, token) ==
    LET ds == SelectSeq(DeltasOfLog(ordinal),
                        LAMBDA d : d.component_id = pool_id
                                   /\ store_address(d.token) = token)
    IN [i \in 1..Len(ds) |-> from_signed_bytes_be(ds[i].delta)]

\* the logs of the block that yield deltas: the Swap logs of registered
\* pools and the PoolDeployed logs of registered pools
YieldingLogs ==
    SelectSeq(BlockLogs(block),
              LAMBDA e : \/ /\ e.log.ev.type = "Swap"
                            /\ IsRegisteredPool(store, format_pool_id(e.log.address))
                         \/ /\ EventMatches(e.log, "PoolDeployed")
                            /\ IsRegisteredPool(store, format_pool_id(e.log.ev.pool)))

\* the deltas the transaction has for a (component, token)
DeltasOfTx(tx_index, key) ==
    SelectSeq(balance_deltas,
              LAMBDA d : d.tx = tx_index /\ BalanceKey(d) = key)

\* C25: the deltas of a Swap log of a registered pool on each asset are its
\* non-zero amounts one by one, the amount in and the negated amount out
\* never netted; every delta carries the ordinal and the transaction of the
\* log it comes from, and the deltas follow the logs of the block in order
C25_DeltasKeptSeparate ==
    stage = "store_balances" =>
        \A logs \in {BlockLogs(block)} :
            /\ \A i \in 1..Len(logs) :
                 \A id \in {format_pool_id(logs[i].log.address)} :
                     (logs[i].log.ev.type = "Swap" /\ IsRegisteredPool(store, id)) =>
                       /\ AmountsOfLog(logs[i].log.ordinal, id,
                                       store[pool_asset_key(id, TRUE)])
                            = SwapAmounts(logs[i].log.ev, TRUE)
                       /\ AmountsOfLog(logs[i].log.ordinal, id,
                                       store[pool_asset_key(id, FALSE)])
                            = SwapAmounts(logs[i].log.ev, FALSE)
                       /\ \A k \in 1..Len(balance_deltas) :
                            balance_deltas[k].ord = logs[i].log.ordinal =>
                                balance_deltas[k].tx = logs[i].tx
            /\ \A yielding \in {YieldingLogs} :
                 \A k \in 1..Len(balance_deltas) :
                     \E i \in 1..Len(yielding) :
                         yielding[i].log.ordinal = balance_deltas[k].ord
            /\ \A k \in 1..(Len(balance_deltas) - 1) :
                 balance_deltas[k].ord <= balance_deltas[k + 1].ord

\* C25 witness: one transaction holds two Swap logs of a registered pool, one
\* of them with amount0In and amount0Out both non-zero, and has a delta of
\* the pool's asset0 for each of the three or four amounts
C25_Witness ==
    /\ stage = "store_balances"
    /\ Len(block) = 1
    /\ \E i, j \in 1..Len(BlockLogs(block)) :
          LET e1 == BlockLogs(block)[i]
              e2 == BlockLogs(block)[j]
          IN /\ i < j
             /\ e1.log.ev.type = "Swap" /\ e2.log.ev.type = "Swap"
             /\ e1.log.address = POOL_A /\ e2.log.address = POOL_A
             /\ e1.log.ev.amount0_in > 0 /\ e1.log.ev.amount0_out > 0
             /\ e2.log.ev.amount0_in > 0
             /\ Len(DeltasOfTx(0, <<format_pool_id(POOL_A), TOKEN_0>>)) >= 3
             /\ Len(DeltasOfLog(e1.log.ordinal)) >= 2
             /\ Len(DeltasOfLog(e2.log.ordinal)) >= 1

(***************************************************************************)
(* Properties of the shape of the built components                         *)
(***************************************************************************)

\* C26: every component maybe_create_component returns has the encoded
\* address of the deployed contract as id, exactly two tokens (asset0 and
\* asset1 of the event, in that order) and a contracts list that starts
\* with the pool, vault0 and vault1, the entries store_protocol_components
\* indexes
C26_ComponentHasTokensAndVaults ==
    CreatedSome =>
        LET component == res[1][1]
            ev == arg.log.ev
        IN /\ Len(component.tokens) = 2
           /\ Len(component.contracts) >= 3
           /\ component.id = "0x" \o HexEncode(component.contracts[1])
           /\ component.tokens = <<ev.asset0, ev.asset1>>
           /\ SubSeq(component.contracts, 1, 3) = <<ev.pool, ev.vault0, ev.vault1>>

(***************************************************************************)
(* Properties of the attributes of created components                      *)
(***************************************************************************)

\* the attributes the change-set of a transaction holds for a component,
\* the empty map when it holds none
EntityAttributes(tx_index, component_id) ==
    LET is == {i \in 1..Len(changes) :
                  /\ changes[i].index = tx_index
                  /\ component_id \in DOMAIN changes[i].entity_changes}
    IN IF is = {} THEN EmptyMap
       ELSE changes[CHOOSE i \in is : TRUE].entity_changes[component_id]

\* C27: the entity change of every component created in the block carries
\* the creation marker (update_marker, value 1), an attribute holding the
\* balance owner (the component's address) and every stateless contract
\* attribute; the marker is still there once the balance owner is set
C27_CreationAttributesAllCarried ==
    stage = "done" =>
        \A n \in 1..Len(tx_components) :
            \A k \in 1..Len(tx_components[n].components) :
                LET id == tx_components[n].components[k].id
                    attrs == EntityAttributes(tx_components[n].tx, id)
                IN /\ "update_marker" \in DOMAIN attrs
                   /\ attrs["update_marker"].value = <<1>>
                   /\ \E name \in DOMAIN attrs \ {default_attributes[a].name :
                                                    a \in 2..Len(default_attributes)} :
                        attrs[name].value = decode_address(id)
                   /\ \A a \in 2..Len(default_attributes) :
                        /\ default_attributes[a].name \in DOMAIN attrs
                        /\ attrs[default_attributes[a].name] = default_attributes[a]

(***************************************************************************)
(* Specification of map_protocol_changes on blocks of vault calls          *)
(***************************************************************************)

\* the calls of the drawn blocks: a deposit and a withdraw on vault 0, a
\* repayWithShares on vault 1, a deposit on an address the registry does not
\* hold and a reverted deposit
SnapshotCallShapes == {1, 2, 4, 6, 7}

\* the most calls of a drawn block
MaxSnapshotCalls == 3

\* the block of the shapes: the first calls are transaction 0 and the
\* others, if any, transaction 1; call i holds the write of ordinal i
SnapshotBlock(shapes, first) ==
    LET tx0 == [index |-> 0,
                calls |-> [i \in 1..first |-> VaultCall(shapes[i], i)]]
        tx1 == [index |-> 1,
                calls |-> [i \in 1..(Len(shapes) - first) |->
                              VaultCall(shapes[first + i], first + i)]]
    IN IF first = Len(shapes) THEN <<tx0>> ELSE <<tx0, tx1>>

\* the registry holds pool A and its vaults; the block created no component
\* and moved no balance
SnapshotInit ==
    /\ \E n \in 1..MaxSnapshotCalls : \E shapes \in [1..n -> SnapshotCallShapes] :
          \E first \in 1..n : block = SnapshotBlock(shapes, first)
    /\ store = RegistryWithPoolA
    /\ stage = "map_protocol_changes"
    /\ height = 0
    /\ calls_used = 0
    /\ tx_components = <<>>
    /\ balance_deltas = <<>>
    /\ balance_store = EmptyMap
    /\ store_deltas = <<>>
    /\ changes = <<>>
    /\ produced = {}
    /\ VaultIdle
    /\ CashIdle

SnapshotNext == MapProtocolChanges

SpecSnapshots == SnapshotInit /\ [][SnapshotNext]_vars

\* the token balances the change-sets of a transaction hold for an address,
\* as a set (one member when one change-set holds the address)
AttachedBalances(tx_index, address) ==
    { changes[i].contract_changes[address].token_balances :
        i \in {j \in 1..Len(changes) :
                  /\ changes[j].index = tx_index
                  /\ address \in DOMAIN changes[j].contract_changes} }

\* the cash-slot writes of the qualifying calls of a transaction on a vault
CashWrites(tx, vault) ==
    SelectSeq(VisitedChanges(tx),
              LAMBDA sc : sc.address = vault
                          /\ sc.key = get_storage_key_for_vault_cash)

\* C28: every snapshot of a transaction is a token balance of the vault's
\* contract change in the change-set of that transaction, with the
\* snapshot's value (the cash field of the write, whatever earlier
\* transactions wrote); a change-set holds no vault token balance that is
\* not a snapshot of its own transaction
C28_SnapshotAttachedToItsTransaction ==
    stage = "done" =>
        \A t \in 1..Len(block) :
            \A vb \in {get_eulerswap_vaults_balances(block[t], store)} :
                \A vault \in {VAULT_0, VAULT_1, STRANGER} :
                    IF vault \in DOMAIN vb
                    THEN /\ AttachedBalances(block[t].index, vault)
                              = { [token \in DOMAIN vb[vault] |->
                                      vb[vault][token].value] }
                         /\ Len(CashWrites(block[t], vault)) = 1 =>
                              AttachedBalances(block[t].index, vault)
                                = { [token \in {AssetOf(vault)} |->
                                       CashValue(CashWrites(block[t], vault)[1].new_value)] }
                    ELSE \A balances \in AttachedBalances(block[t].index, vault) :
                             DOMAIN balances = {}

\* C28 witness: two transactions wrote different cash values to the same
\* vault, and each change-set holds the value of its own transaction
C28_Witness ==
    /\ stage = "done"
    /\ Len(block) = 2
    /\ Len(changes) = 2
    /\ VAULT_0 \in DOMAIN changes[1].contract_changes
    /\ VAULT_0 \in DOMAIN changes[2].contract_changes
    /\ changes[1].contract_changes[VAULT_0].token_balances[TOKEN_0]
         = CashValue(CashWord(2, 0))
    /\ changes[2].contract_changes[VAULT_0].token_balances[TOKEN_0]
         = CashValue(CashWord(1, 0))

(***************************************************************************)
(* Properties of events of pools the registry does not hold                *)
(***************************************************************************)

\* the pool a log would move the balances of: the emitter of a Swap log,
\* the pool of a PoolDeployed log, <<>> for any other log
PoolOfLog(log) ==
    IF log.ev.type = "Swap" THEN <<format_pool_id(log.address)>>
    ELSE IF log.ev.type = "PoolDeployed" THEN <<format_pool_id(log.ev.pool)>>
    ELSE <<>>

\* C29: a Swap log whose emitter has no pool:<id> entry in the registry and
\* a PoolDeployed log whose pool has none yield no delta; every delta and
\* every balance is of a registered pool
C29_UnregisteredPoolYieldsNothing ==
    stage \in {"store_balances", "map_protocol_changes"} =>
        /\ \A i \in 1..Len(BlockLogs(block)) :
             \A pool \in {PoolOfLog(BlockLogs(block)[i].log)} :
                 (pool # <<>> /\ ~IsRegisteredPool(store, pool[1])) =>
                     DeltasOfLog(BlockLogs(block)[i].log.ordinal) = <<>>
        /\ \A k \in 1..Len(balance_deltas) :
             IsRegisteredPool(store, balance_deltas[k].component_id)
        /\ \A key \in DOMAIN balance_store : IsRegisteredPool(store, key[1])

\* C29 witness: the extractor has run on a block with a deployment event of
\* a pool the registry does not hold, with non-zero reserves, and a Swap log
\* of that pool with non-zero amounts
C29_Witness ==
    /\ stage = "store_balances"
    /\ \E i, j \in 1..Len(BlockLogs(block)) :
          LET deployed == BlockLogs(block)[i].log
              swapped == BlockLogs(block)[j].log
          IN /\ deployed.ev.type = "PoolDeployed"
             /\ ~IsRegisteredPool(store, format_pool_id(deployed.ev.pool))
             /\ MatchingPoolConfigs(block, deployed.ev.pool) # <<>>
             /\ MatchingPoolConfigs(block, deployed.ev.pool)[1].log.ev.initial_state[1] > 0
             /\ swapped.ev.type = "Swap"
             /\ swapped.address = deployed.ev.pool
             /\ swapped.ev.amount0_in > 0

(***************************************************************************)
(* Properties of the order of the internal maps                            *)
(***************************************************************************)

\* the orders a HashMap may yield the members of a set of keys in
IterationOrders(keys) ==
    {o \in [1..Cardinality(keys) -> keys] :
        \A i, j \in 1..Cardinality(keys) : o[i] = o[j] => i = j}

\* the builder after the vaults of a snapshot map were visited in an order:
\* the loop for (vault_address, token_balances) in vault_balances
RECURSIVE VaultBalancesInOrder(_, _, _)
VaultBalancesInOrder(b, vb, order) ==
    IF order = <<>> THEN b
    ELSE add_contract_changes(
             VaultBalancesInOrder(b, vb, SubSeq(order, 1, Len(order) - 1)),
             order[Len(order)], EmptyMap,
             [t \in DOMAIN vb[order[Len(order)]] |-> vb[order[Len(order)]][t].value])

\* C30: the change-sets map_protocol_changes emits are a function of the
\* block, the registry and the handler's other inputs alone: whatever order
\* the builders are drained in and whatever order the vaults of a snapshot
\* map are visited in, the emitted list is the same
C30_OutputIndependentOfMapOrder ==
    [][ stage = "map_protocol_changes" =>
          /\ \A order \in DrainOrders(TransactionChangesOf(
                              block, tx_components, store, store_deltas, balance_deltas)) :
                map_protocol_changes(block, tx_components, store, store_deltas,
                                     balance_deltas, order) = changes'
          /\ \A t \in 1..Len(block) :
                \A vb \in {get_eulerswap_vaults_balances(block[t], store)} :
                    \A order \in IterationOrders(DOMAIN vb) :
                        VaultBalancesInOrder(NewBuilder(block[t].index), vb, order)
                          = WithVaultBalances(NewBuilder(block[t].index), vb, DOMAIN vb)
      ]_vars

\* C30 witness: a block of two transactions with snapshots, one of them of
\* two vaults, has its two change-sets in the order of the transactions
C30_Witness ==
    /\ stage = "done"
    /\ Len(changes) = 2
    /\ changes[1].index < changes[2].index
    /\ \E i \in 1..2 :
          /\ VAULT_0 \in DOMAIN changes[i].contract_changes
          /\ VAULT_1 \in DOMAIN changes[i].contract_changes
          /\ DOMAIN changes[i].contract_changes[VAULT_0].token_balances # {}
          /\ DOMAIN changes[i].contract_changes[VAULT_1].token_balances # {}

(***************************************************************************)
(* Properties of the final pass over the changed contracts                 *)
(***************************************************************************)

\* the changed contracts of a change-set that have no vault:<addr> entry and
\* are themselves registered pools
ChangedPools(cs) ==
    {a \in DOMAIN cs.contract_changes :
        /\ ~IsRegisteredVault(store, a)
        /\ IsRegisteredPool(store, format_pool_id(a))}

\* the components the change-set marks as updated: the entities that carry
\* the update marker as an update
MarkedComponents(cs) ==
    {id \in DOMAIN cs.entity_changes :
        /\ "update_marker" \in DOMAIN cs.entity_changes[id]
        /\ cs.entity_changes[id]["update_marker"].change = "Update"}

\* C31: in the final pass of map_protocol_changes the components marked as
\* updated in a change-set are exactly the ids of its changed contracts that
\* are registered pools and not registered vaults; a change-set whose changed
\* contracts are registered vaults or allow-listed addresses only marks none
C31_OnlyChangedPoolsMarked ==
    stage = "done" =>
        \A i \in 1..Len(changes) :
            \A cs \in {changes[i]} :
                /\ MarkedComponents(cs) = {format_pool_id(a) : a \in ChangedPools(cs)}
                /\ DOMAIN cs.entity_changes = MarkedComponents(cs)
                /\ (\A a \in DOMAIN cs.contract_changes :
                        a \in AllowListed \/ IsRegisteredVault(store, a))
                      => DOMAIN cs.entity_changes = {}

\* C31 witness: a block of two change-sets with a registered pool in the
\* registry: one changed the pool and marks its id, the other changed an
\* allow-listed address only and marks nothing
C31_Witness ==
    /\ stage = "done"
    /\ Len(changes) = 2
    /\ \E i \in 1..2 :
          /\ DOMAIN changes[i].contract_changes = {POOL_A}
          /\ MarkedComponents(changes[i]) = {format_pool_id(POOL_A)}
    /\ \E i \in 1..2 :
          /\ DOMAIN changes[i].contract_changes \subseteq AllowListed
          /\ DOMAIN changes[i].contract_changes # {}
          /\ MarkedComponents(changes[i]) = {}

(***************************************************************************)
(* map_pools_created: the change-sets of the PoolDeployed events of the    *)
(* configured factory, as a function of the parameters and the block       *)
(***************************************************************************)

\* the most calls of a drawn block
MaxPoolCalls == 3

\* EventHandler::handle_events with one handler: the logs of the block in
\* order, those of the filtered addresses that decode as the event
handle_events(blk, addresses, type) ==
    LET Handled(e) == e.log.address \in addresses /\ EventMatches(e.log, type)
    IN SelectSeq(BlockLogs(blk), Handled)

\* a mutant: the events of every address are handled
HandlesEveryAddress(blk, params) ==
    LET logs == BlockLogs(blk)
        Handled(e) == EventMatches(e.log, "PoolDeployed")
        kept == SelectSeq(logs, Handled)
    IN [panicked |-> FALSE,
        changes |-> [i \in 1..Len(kept) |->
            [tx |-> kept[i].tx,
             contract_changes |-> <<>>,
             entity_changes |-> <<>>,
             component_changes |->
                << [id |-> format_pool_id(kept[i].log.ev.pool),
                    tokens |-> <<kept[i].log.ev.asset0, kept[i].log.ev.asset1>>] >>,
             balance_changes |->
                << [token |-> kept[i].log.ev.asset0, balance |-> <<0>>,
                    component_id |-> format_pool_id(kept[i].log.ev.pool)],
                   [token |-> kept[i].log.ev.asset1, balance |-> <<0>>,
                    component_id |-> format_pool_id(kept[i].log.ev.pool)] >>]]]

\* get_pools: new_pools after the events of the block were handled, or a
\* panic when the factory address of the parameters does not parse
\*   Address::from_str   an optional "0x", then exactly 20 bytes of hex
\*   to_hex              "0x" and the lowercase hex of the bytes
\* (the feeMultiplier attribute, a copy of an event field, is not kept)
get_pools(blk, params) ==
    LET s == params.factory_address
        body == IF Len(s) >= 2 /\ SubSeq(s, 1, 2) = "0x"
                THEN SubSeq(s, 3, Len(s)) ELSE s
        decoded == hex_decode(body)
        to_hex(bytes) == "0x" \o HexEncode(bytes)
        zero == to_signed_bytes_be(0)
        on_pool_deployed(event, tx) ==
            [tx |-> tx,
             contract_changes |-> <<>>,
             entity_changes |->
                << [component_id |-> to_hex(event.pool),
                    attributes |->
                       << [name |-> "reserve0", value |-> zero,
                           change |-> "Creation"],
                          [name |-> "reserve1", value |-> zero,
                           change |-> "Creation"] >>] >>,
             component_changes |->
                << [id |-> to_hex(event.pool),
                    tokens |-> <<event.asset0, event.asset1>>,
                    contracts |-> <<>>,
                    static_att |-> << <<"pool_address", event.pool>> >>,
                    change |-> "Creation",
                    protocol_type |->
                       [name |-> params.protocol_type_name,
                        financial_type |-> "Swap",
                        implementation_type |-> "Custom"]] >>,
             balance_changes |->
                << [token |-> event.asset0, balance |-> zero,
                    component_id |-> to_hex(event.pool)],
                   [token |-> event.asset1, balance |-> zero,
                    component_id |-> to_hex(event.pool)] >>]
    IN IF decoded = HexErr \/ Len(decoded) # AddrLen
       THEN [panicked |-> TRUE, changes |-> <<>>]
       ELSE LET kept == handle_events(blk, {decoded}, "PoolDeployed")
            IN [panicked |-> FALSE,
                changes |-> [i \in 1..Len(kept) |->
                                on_pool_deployed(kept[i].log.ev, kept[i].tx)]]

\* map_pools_created: the changes of the BlockChanges returned
map_pools_created(params, blk) == get_pools(blk, params)

\* the parameters and the block are drawn
\*   factory_address   the factory's address with and without "0x", the
\*                     address of another contract, and a string that is
\*                     no address
\*   calls             a deployment of pool A and of pool B by the factory,
\*                     a call of another contract that emits the event, a
\*                     call of another contract in which the factory emits
\*                     it, a PoolConfig of another contract, a swap
\*   layout            one transaction per call, or one for all the calls
PoolsInit ==
    /\ \E factory_address \in
             {format_pool_id(EULERSWAP_FACTORY),
              "F75548aF02f1928CbE9015985D4Fcbf96d728544",
              format_pool_id(STRANGER), "0x"} :
        \E n \in 1..MaxPoolCalls : \E shapes \in [1..n -> 1..6] :
          \E together \in BOOLEAN :
            LET Call(shape, ordinal) ==
                    CASE shape = 1 -> DeployCall(POOL_A, 100, 0, ordinal)
                      [] shape = 2 -> DeployNoConfigCall(POOL_B, ordinal)
                      [] shape = 3 -> StrayDeployCall(POOL_B, 100, 100, ordinal)
                      [] shape = 4 ->
                           [StrayDeployCall(POOL_A, 0, 0, ordinal) EXCEPT
                               !.logs[1].address = EULERSWAP_FACTORY]
                      [] shape = 5 -> ConfigOnlyCall(POOL_A, 100, 0, ordinal)
                      [] shape = 6 -> SwapCall(EULERSWAP_FACTORY, 50, 0, 0, 30, ordinal)
                calls == [i \in 1..n |-> Call(shapes[i], 2 * i - 1)]
            IN arg = [params |-> [factory_address |-> factory_address,
                                  protocol_type_name |-> "eulerswap_pool"],
                      block |-> IF together
                                THEN << [index |-> 0, calls |-> calls] >>
                                ELSE [i \in 1..n |->
                                        [index |-> i - 1, calls |-> <<calls[i]>>]]]
    /\ res = <<>>
    /\ store = EmptyStore
    /\ PipelineIdle
    /\ VaultIdle

\* the handler applied to the drawn parameters and block
ApplyMapPoolsCreated ==
    /\ res = <<>>
    /\ res' = <<map_pools_created(arg.params, arg.block)>>
    /\ UNCHANGED <<arg, store, pipelineVars, vaultVars>>

PoolsNext == ApplyMapPoolsCreated

SpecPools == PoolsInit /\ [][PoolsNext]_vars

(***************************************************************************)
(* Properties of map_pools_created                                         *)
(***************************************************************************)

\* the factory address the parameters configure, <<>> when they hold none
ConfiguredFactory ==
    IF Malformed(arg.params.factory_address) THEN <<>>
    ELSE LET s == arg.params.factory_address
         IN IF SubSeq(s, 1, 2) = "0x" THEN decode_address(s) ELSE hex(s)

\* the positions, among the logs, of the PoolDeployed events the configured
\* factory emitted
FactoryDeployments(logs) ==
    {p \in 1..Len(logs) :
        /\ logs[p].log.address = ConfiguredFactory
        /\ logs[p].log.ev.type = "PoolDeployed"}

\* the k-th of the positions in event order
NthDeployment(positions, k) ==
    CHOOSE p \in positions : Cardinality({q \in positions : q <= p}) = k

\* C32: map_pools_created returns one change-set per PoolDeployed event
\* that the configured factory emitted, in event order; the k-th change-set
\* is of the transaction of the k-th event and creates one component, of
\* the id of the event's pool and the tokens (asset0, asset1), with one
\* balance of zero for each asset; the events of other addresses give none
C32_OneChangeSetPerFactoryDeployment ==
    (res # <<>> /\ ~res[1].panicked) =>
        \A out \in {res[1].changes} : \A logs \in {BlockLogs(arg.block)} :
          \A positions \in {FactoryDeployments(logs)} :
            /\ Len(out) = Cardinality(positions)
            /\ \A k \in 1..Len(out) :
                 \A e \in {logs[NthDeployment(positions, k)]} :
                    /\ out[k].tx = e.tx
                    /\ Len(out[k].component_changes) = 1
                    /\ out[k].component_changes[1].id = format_pool_id(e.log.ev.pool)
                    /\ out[k].component_changes[1].tokens =
                          <<e.log.ev.asset0, e.log.ev.asset1>>
                    /\ Len(out[k].balance_changes) = 2
                    /\ \A t \in 1..2 :
                         /\ out[k].balance_changes[t].token =
                               <<e.log.ev.asset0, e.log.ev.asset1>>[t]
                         /\ out[k].balance_changes[t].component_id =
                               format_pool_id(e.log.ev.pool)
                         /\ from_signed_bytes_be(out[k].balance_changes[t].balance) = 0

\* C32 witness: a block of three PoolDeployed events, the first of another
\* address, then one of the factory for pool B and one for pool A in one
\* transaction: two change-sets, pool B's first
C32_Witness ==
    /\ res # <<>>
    /\ ~res[1].panicked
    /\ Len(arg.block) = 1
    /\ Cardinality({p \in 1..Len(BlockLogs(arg.block)) :
                       BlockLogs(arg.block)[p].log.ev.type = "PoolDeployed"}) = 3
    /\ BlockLogs(arg.block)[1].log.address # ConfiguredFactory
    /\ Len(res[1].changes) = 2
    /\ res[1].changes[1].component_changes[1].id = format_pool_id(POOL_B)
    /\ res[1].changes[2].component_changes[1].id = format_pool_id(POOL_A)
    /\ res[1].changes[1].tx = res[1].changes[2].tx

====
